---- MODULE Spec2Model ----
(***************************************************************************)
(* modeload: save and load Cursor custom modes.                           *)
(*                                                                         *)
(* The model follows main.ts (main, promptConfirmation, handleSaveCommand, *)
(* handleLoadCommand), arg-parser.ts (parseArgs), cli-schema.ts            *)
(* (validateCliArgs), database.ts (findCursorDatabase,                     *)
(* validateCursorDatabase), save.ts (saveModesToFile, writeModesToFile)    *)
(* and load.ts (loadModesFromFile).                                        *)
(*                                                                         *)
(* JSON text is a sequence of tokens, a JavaScript value is a record       *)
(* [t, p, k, c, n]; JSON.parse and JSON.stringify convert between them.    *)
(***************************************************************************)
EXTENDS Integers, Sequences, FiniteSets, TLC

\* ------------------------------------------------------------------------
\* Bounds of the model
\* ------------------------------------------------------------------------

\* longest array of modes enumerated exhaustively in stored records and
\* payload files (a few fixed longer samples are added to the inputs)
MaxModes == 1

\* ------------------------------------------------------------------------
\* constants.ts
\* ------------------------------------------------------------------------

CURSOR_SETTINGS_KEY == "src.vs.platform.reactivestorage.browser.reactiveStorageServiceImpl.persistentStorage.applicationUser"

COMPOSER_STATE_KEY == "composerState"

MODES_KEY == "modes4"

\* ------------------------------------------------------------------------
\* JavaScript values.  t is the type tag; p the primitive's content; c holds
\* the n indexed elements of an array followed by the values of the named
\* properties, whose names are k (an object has n = 0, an array parsed from
\* JSON has k = <<>>).
\* ------------------------------------------------------------------------

JNull == [t |-> "null", p |-> "null", k |-> <<>>, c |-> <<>>, n |-> 0]

JUndefined == [t |-> "undefined", p |-> "undefined", k |-> <<>>, c |-> <<>>, n |-> 0]

JBool(b) == [t |-> "bool", p |-> IF b THEN "true" ELSE "false", k |-> <<>>, c |-> <<>>, n |-> 0]

JNum(s) == [t |-> "num", p |-> s, k |-> <<>>, c |-> <<>>, n |-> 0]

JStr(s) == [t |-> "str", p |-> s, k |-> <<>>, c |-> <<>>, n |-> 0]

JArr(elems) == [t |-> "arr", p |-> "", k |-> <<>>, c |-> elems, n |-> Len(elems)]

JObj(keys, vals) == [t |-> "obj", p |-> "", k |-> keys, c |-> vals, n |-> 0]

\* Array.isArray
IsArray(v) == v.t = "arr"

\* ToBoolean: undefined, null, false, 0 and "" are falsy
Truthy(v) ==
  CASE v.t = "undefined" -> FALSE
    [] v.t = "null" -> FALSE
    [] v.t = "bool" -> v.p = "true"
    [] v.t = "num" -> v.p # "0"
    [] v.t = "str" -> v.p # ""
    [] OTHER -> TRUE

\* position of a named property in k, 0 when the value has no such property
KeyIndex(v, name) ==
  LET hits == {i \in 1..Len(v.k) : v.k[i] = name}
  IN IF hits = {} THEN 0 ELSE CHOOSE i \in hits : TRUE

HasProp(v, name) == KeyIndex(v, name) # 0

\* the indexed elements of an array
Elements(v) == SubSeq(v.c, 1, v.n)

\* v[name] for a value that is not null or undefined: a primitive has no own
\* named property
GetProp(v, name) ==
  IF HasProp(v, name) THEN v.c[v.n + KeyIndex(v, name)] ELSE JUndefined

\* a property read throws a TypeError on null and undefined
CanRead(v) == v.t \notin {"null", "undefined"}

\* in strict mode (an ES module) a property write throws a TypeError unless
\* the target is an object or an array
CanWrite(v) == v.t \in {"obj", "arr"}

\* v[name] = val on an object or array: an existing property keeps its
\* position, a new one is appended
SetProp(v, name, val) ==
  IF HasProp(v, name)
  THEN [v EXCEPT !.c[v.n + KeyIndex(v, name)] = val]
  ELSE [v EXCEPT !.k = Append(v.k, name), !.c = Append(v.c, val)]

\* ------------------------------------------------------------------------
\* JSON text: a sequence of tokens [k, v]
\* ------------------------------------------------------------------------

Punct(s) == [k |-> "punct", v |-> s]

LBrace == Punct("{")

RBrace == Punct("}")

LBrack == Punct("[")

RBrack == Punct("]")

Comma == Punct(",")

Colon == Punct(":")

StrTok(s) == [k |-> "str", v |-> s]

NumTok(s) == [k |-> "num", v |-> s]

LitTok(s) == [k |-> "lit", v |-> s]

\* a line feed, one space
NL == [k |-> "ws", v |-> "\n"]

SP == [k |-> "ws", v |-> " "]

\* a token that is no JSON token at all
Garbage == [k |-> "bad", v |-> "?"]

RECURSIVE Spaces(_)
Spaces(count) == IF count = 0 THEN <<>> ELSE <<SP>> \o Spaces(count - 1)

\* JSON.stringify(value) and JSON.stringify(value, null, indent): indent = 0
\* is the compact form.  An array serialises its indexed elements only.
RECURSIVE Ser(_, _, _)
RECURSIVE SerElems(_, _, _, _)
RECURSIVE SerMembers(_, _, _, _)
Ser(v, indent, depth) ==
  LET brk(d) == IF indent = 0 THEN <<>> ELSE <<NL>> \o Spaces(indent * d)
  IN CASE v.t = "null" -> <<LitTok("null")>>
       [] v.t = "bool" -> <<LitTok(v.p)>>
       [] v.t = "num" -> <<NumTok(v.p)>>
       [] v.t = "str" -> <<StrTok(v.p)>>
       [] v.t = "arr" ->
            IF v.n = 0 THEN <<LBrack, RBrack>>
            ELSE <<LBrack>> \o SerElems(v, 1, indent, depth + 1) \o brk(depth) \o <<RBrack>>
       [] v.t = "obj" ->
            IF Len(v.k) = 0 THEN <<LBrace, RBrace>>
            ELSE <<LBrace>> \o SerMembers(v, 1, indent, depth + 1) \o brk(depth) \o <<RBrace>>
       [] OTHER -> <<>>

SerElems(v, i, indent, depth) ==
  LET brk == IF indent = 0 THEN <<>> ELSE <<NL>> \o Spaces(indent * depth)
      sep == IF i = 1 THEN <<>> ELSE <<Comma>>
  IN IF i > v.n THEN <<>>
     ELSE sep \o brk \o Ser(v.c[i], indent, depth) \o SerElems(v, i + 1, indent, depth)

SerMembers(v, i, indent, depth) ==
  LET brk == IF indent = 0 THEN <<>> ELSE <<NL>> \o Spaces(indent * depth)
      sep == IF i = 1 THEN <<>> ELSE <<Comma>>
      gap == IF indent = 0 THEN <<>> ELSE <<SP>>
  IN IF i > Len(v.k) THEN <<>>
     ELSE sep \o brk \o <<StrTok(v.k[i]), Colon>> \o gap
          \o Ser(v.c[v.n + i], indent, depth) \o SerMembers(v, i + 1, indent, depth)

JSONstringify(v) == Ser(v, 0, 0)

JSONstringifyPretty(v, indent) == Ser(v, indent, 0)

\* JSON.parse: whitespace between tokens is skipped, then one value must
\* span the whole text.  A result is [ok, v, i]: i is the next position.
ParseFail == [ok |-> FALSE, v |-> JUndefined, i |-> 0]

ParseOk(v, i) == [ok |-> TRUE, v |-> v, i |-> i]

IsWs(tok) == tok.k = "ws"

RECURSIVE ParseValue(_, _)
RECURSIVE ParseElems(_, _, _)
RECURSIVE ParseMembers(_, _, _)
ParseValue(ts, i) ==
  IF i > Len(ts) THEN ParseFail
  ELSE LET tok == ts[i]
       IN CASE tok.k = "lit" ->
                 ParseOk(IF tok.v = "null" THEN JNull ELSE JBool(tok.v = "true"), i + 1)
            [] tok.k = "num" -> ParseOk(JNum(tok.v), i + 1)
            [] tok.k = "str" -> ParseOk(JStr(tok.v), i + 1)
            [] tok = LBrack ->
                 IF i + 1 <= Len(ts) /\ ts[i + 1] = RBrack
                 THEN ParseOk(JArr(<<>>), i + 2)
                 ELSE ParseElems(ts, i + 1, <<>>)
            [] tok = LBrace ->
                 IF i + 1 <= Len(ts) /\ ts[i + 1] = RBrace
                 THEN ParseOk(JObj(<<>>, <<>>), i + 2)
                 ELSE ParseMembers(ts, i + 1, JObj(<<>>, <<>>))
            [] OTHER -> ParseFail

ParseElems(ts, i, acc) ==
  LET r == ParseValue(ts, i)
  IN IF ~r.ok \/ r.i > Len(ts) THEN ParseFail
     ELSE IF ts[r.i] = Comma THEN ParseElems(ts, r.i + 1, Append(acc, r.v))
     ELSE IF ts[r.i] = RBrack THEN ParseOk(JArr(Append(acc, r.v)), r.i + 1)
     ELSE ParseFail

\* a repeated key keeps its first position and takes the last value
ParseMembers(ts, i, acc) ==
  IF i + 1 > Len(ts) \/ ts[i].k # "str" \/ ts[i + 1] # Colon THEN ParseFail
  ELSE LET r == ParseValue(ts, i + 2)
       IN IF ~r.ok \/ r.i > Len(ts) THEN ParseFail
          ELSE IF ts[r.i] = Comma THEN ParseMembers(ts, r.i + 1, SetProp(acc, ts[i].v, r.v))
          ELSE IF ts[r.i] = RBrace THEN ParseOk(SetProp(acc, ts[i].v, r.v), r.i + 1)
          ELSE ParseFail

JSONparse(text) ==
  LET ts == SelectSeq(text, LAMBDA tok : ~IsWs(tok))
      r == ParseValue(ts, 1)
  IN IF r.ok /\ r.i = Len(ts) + 1 THEN r ELSE ParseFail

\* ------------------------------------------------------------------------
\* database.ts
\* ------------------------------------------------------------------------

\* an optional string argument that was not passed
UNDEF == "<undefined>"

\* os.homedir()
homedir == "/home/user"

\* join(homedir(), ...) for the six standard locations, in declared order
possiblePaths ==
  << "/home/user/Library/Application Support/Cursor/User/globalStorage/state.vscdb",
     "/home/user/AppData/Roaming/Cursor/User/globalStorage/state.vscdb",
     "/home/user/.config/Cursor/User/globalStorage/state.vscdb",
     "/home/user/.cursor/User/globalStorage/state.vscdb",
     "/home/user/snap/cursor/current/.config/Cursor/User/globalStorage/state.vscdb",
     "/home/user/.local/share/Cursor/User/globalStorage/state.vscdb" >>

\* a path of the --db-path override
CustomDbPath == "/custom/path/to/state.vscdb"

NoError == <<>>

\* the standard candidates that exist, by position
ExistingIndexes(existing) == {i \in 1..Len(possiblePaths) : possiblePaths[i] \in existing}

\* FirstExisting keeping the last hit instead of returning at the first
FirstExisting_Last(existing) ==
  LET hits == ExistingIndexes(existing)
  IN CHOOSE i \in hits : \A j \in hits : j <= i

\* the for loop over possiblePaths: the first candidate for which existsSync
\* answers true
FirstExisting(existing) ==
  LET hits == ExistingIndexes(existing)
  IN CHOOSE i \in hits : \A j \in hits : i <= j

\* findCursorDatabase whose not-found message names only the first standard
\* location
findCursorDatabase_ShortError(customPath, existing) ==
  IF customPath # UNDEF /\ customPath # ""
  THEN IF customPath \notin existing
       THEN [ok |-> FALSE, path |-> UNDEF,
             error |-> <<"Custom database path not found: ", customPath>>,
             probed |-> <<customPath>>]
       ELSE [ok |-> TRUE, path |-> customPath, error |-> NoError,
             probed |-> <<customPath>>]
  ELSE IF ExistingIndexes(existing) # {}
       THEN [ok |-> TRUE, path |-> possiblePaths[FirstExisting(existing)],
             error |-> NoError,
             probed |-> SubSeq(possiblePaths, 1, FirstExisting(existing))]
       ELSE [ok |-> FALSE, path |-> UNDEF,
             error |-> <<"Cursor database not found in any of the standard locations:",
                         possiblePaths[1],
                         "Use --db-path to specify a custom database location">>,
             probed |-> possiblePaths]

\* findCursorDatabase searching the standard locations when the custom path
\* does not exist
findCursorDatabase_Fallback(customPath, existing) ==
  IF customPath # UNDEF /\ customPath # "" /\ customPath \in existing
  THEN [ok |-> TRUE, path |-> customPath, error |-> NoError, probed |-> <<customPath>>]
  ELSE IF ExistingIndexes(existing) # {}
       THEN [ok |-> TRUE, path |-> possiblePaths[FirstExisting(existing)],
             error |-> NoError,
             probed |-> SubSeq(possiblePaths, 1, FirstExisting(existing))]
       ELSE [ok |-> FALSE, path |-> UNDEF,
             error |-> <<"Cursor database not found in any of the standard locations:">>
                       \o possiblePaths
                       \o <<"Use --db-path to specify a custom database location">>,
             probed |-> possiblePaths]

\* findCursorDatabase taking every custom path that is not undefined as
\* given, the empty string included
findCursorDatabase_EmptyIsCustom(customPath, existing) ==
  IF customPath # UNDEF
  THEN IF customPath \notin existing
       THEN [ok |-> FALSE, path |-> UNDEF,
             error |-> <<"Custom database path not found: ", customPath>>,
             probed |-> <<customPath>>]
       ELSE [ok |-> TRUE, path |-> customPath, error |-> NoError,
             probed |-> <<customPath>>]
  ELSE IF ExistingIndexes(existing) # {}
       THEN [ok |-> TRUE, path |-> possiblePaths[FirstExisting(existing)],
             error |-> NoError,
             probed |-> SubSeq(possiblePaths, 1, FirstExisting(existing))]
       ELSE [ok |-> FALSE, path |-> UNDEF,
             error |-> <<"Cursor database not found in any of the standard locations:">>
                       \o possiblePaths
                       \o <<"Use --db-path to specify a custom database location">>,
             probed |-> possiblePaths]

\* findCursorDatabase(customPath): existing is the set of paths for which
\* existsSync answers true.  The result is [ok, path, error, probed]: error
\* is the message of the Error thrown, as its parts; probed the paths handed
\* to existsSync, in order.
findCursorDatabase(customPath, existing) ==
  IF customPath # UNDEF /\ customPath # ""
  THEN IF customPath \notin existing
       THEN [ok |-> FALSE, path |-> UNDEF,
             error |-> <<"Custom database path not found: ", customPath>>,
             probed |-> <<customPath>>]
       ELSE [ok |-> TRUE, path |-> customPath, error |-> NoError,
             probed |-> <<customPath>>]
  ELSE IF ExistingIndexes(existing) # {}
       THEN [ok |-> TRUE, path |-> possiblePaths[FirstExisting(existing)],
             error |-> NoError,
             probed |-> SubSeq(possiblePaths, 1, FirstExisting(existing))]
       ELSE [ok |-> FALSE, path |-> UNDEF,
             error |-> <<"Cursor database not found in any of the standard locations:">>
                       \o possiblePaths
                       \o <<"Use --db-path to specify a custom database location">>,
             probed |-> possiblePaths]

\* "SQLite format 3" as character codes
SQLiteMagic == <<83, 81, 76, 105, 116, 101, 32, 102, 111, 114, 109, 97, 116, 32, 51>>

\* HeaderOf decoding 14 bytes instead of 16
HeaderOf_Short(bytes) ==
  LET len == IF Len(bytes) < 14 THEN Len(bytes) ELSE 14
  IN [i \in 1..len |-> bytes[i] % 128]

\* buffer.toString('ascii', 0, 16): at most 16 bytes, each with its highest
\* bit unset
HeaderOf(bytes) ==
  LET len == IF Len(bytes) < 16 THEN Len(bytes) ELSE 16
  IN [i \in 1..len |-> bytes[i] % 128]

\* StartsWithMagic comparing without regard to letter case
StartsWithMagic_IgnoreCase(header) ==
  LET lower(c) == IF c \in 65..90 THEN c + 32 ELSE c
  IN /\ Len(header) >= Len(SQLiteMagic)
     /\ \A i \in 1..Len(SQLiteMagic) : lower(header[i]) = lower(SQLiteMagic[i])

\* header.startsWith('SQLite format 3')
StartsWithMagic(header) ==
  /\ Len(header) >= Len(SQLiteMagic)
  /\ SubSeq(header, 1, Len(SQLiteMagic)) = SQLiteMagic

\* validateCursorDatabase(dbPath): a failing readFileSync is caught
validateCursorDatabase(dbPath, existing, readable, bytes) ==
  IF dbPath \notin existing THEN FALSE
  ELSE IF ~readable THEN FALSE
  ELSE StartsWithMagic(HeaderOf(bytes))

\* readFileSync(dbPath, { encoding: null }): present is FALSE when the file
\* is gone by the time it is read
readFileSync(present, readable, bytes) ==
  IF ~present THEN [ok |-> FALSE, buffer |-> <<>>, error |-> <<"ENOENT">>]
  ELSE IF ~readable THEN [ok |-> FALSE, buffer |-> <<>>, error |-> <<"EACCES">>]
  ELSE [ok |-> TRUE, buffer |-> bytes, error |-> NoError]

\* validateCursorDatabase_try without the catch: the Error of readFileSync
\* leaves the function
validateCursorDatabase_try_NoCatch(dbPath, existing, deleted, readable, bytes) ==
  LET read == readFileSync(~deleted, readable, bytes)
  IN IF dbPath \notin existing
     THEN [value |-> FALSE, thrown |-> NoError, probes |-> <<"existsSync">>]
     ELSE IF ~read.ok
     THEN [value |-> FALSE, thrown |-> read.error,
           probes |-> <<"existsSync", "readFileSync">> \o read.error]
     ELSE [value |-> StartsWithMagic(HeaderOf(read.buffer)), thrown |-> NoError,
           probes |-> <<"existsSync", "readFileSync">>]

\* validateCursorDatabase(dbPath) with its try and catch: deleted says that
\* the file went away between existsSync and readFileSync.  The result is
\* [value, thrown, probes]: the value returned, the Error that left the
\* function (NoError when none), the file system calls made and the Error a
\* call raised.
validateCursorDatabase_try(dbPath, existing, deleted, readable, bytes) ==
  LET read == readFileSync(~deleted, readable, bytes)
  IN IF dbPath \notin existing
     THEN [value |-> FALSE, thrown |-> NoError, probes |-> <<"existsSync">>]
     ELSE IF ~read.ok
     THEN [value |-> FALSE, thrown |-> NoError,
           probes |-> <<"existsSync", "readFileSync">> \o read.error]
     ELSE [value |-> StartsWithMagic(HeaderOf(read.buffer)), thrown |-> NoError,
           probes |-> <<"existsSync", "readFileSync">>]

\* ------------------------------------------------------------------------
\* cli-schema.ts and arg-parser.ts
\* ------------------------------------------------------------------------

\* extname(path), over the file names of the model
extname(path) ==
  CASE path = "modes.json" -> ".json"
    [] path = "modes.txt" -> ".txt"
    [] OTHER -> ""

\* The object handed to validateCliArgs and the object it returns have the
\* fields command, filename, dbPath (a string or UNDEF), help, version
\* (booleans) and yes ("true", "false", or UNDEF for a property the object
\* does not have).
RawArgs(command, filename, dbPath, help, version, yes) ==
  [command |-> command, filename |-> filename, dbPath |-> dbPath,
   help |-> help, version |-> version, yes |-> yes]

\* CommandSchema
CommandSchema(command) == command \in {"save", "load"}

\* FilePathSchema
FilePathSchema(filename) == filename # UNDEF /\ filename # "" /\ extname(filename) = ".json"

\* DatabasePathSchema
DatabasePathSchema(dbPath, existing) == dbPath = UNDEF \/ (dbPath # "" /\ dbPath \in existing)

\* CliArgsSchema.parse: z.object keeps the declared keys only, so the yes
\* property of the input is not copied to the output
CliArgsSchema(raw, existing) ==
  IF CommandSchema(raw.command) /\ FilePathSchema(raw.filename)
     /\ DatabasePathSchema(raw.dbPath, existing)
  THEN [ok |-> TRUE, args |-> [raw EXCEPT !.yes = UNDEF]]
  ELSE [ok |-> FALSE, args |-> raw]

\* HelpSchema.parse
HelpSchema(raw) ==
  IF raw.help /\ raw.command = UNDEF /\ raw.filename = UNDEF /\ raw.dbPath = UNDEF
  THEN [ok |-> TRUE, args |-> [raw EXCEPT !.yes = UNDEF]]
  ELSE [ok |-> FALSE, args |-> raw]

\* VersionSchema.parse
VersionSchema(raw) ==
  IF raw.version /\ raw.command = UNDEF /\ raw.filename = UNDEF /\ raw.dbPath = UNDEF
  THEN [ok |-> TRUE, args |-> [raw EXCEPT !.yes = UNDEF]]
  ELSE [ok |-> FALSE, args |-> raw]

\* validateCliArgs: the first schema of the union that accepts the input
\* gives the result; if none does an Error is thrown
validateCliArgs(raw, existing) ==
  LET c == CliArgsSchema(raw, existing)
      h == HelpSchema(raw)
      v == VersionSchema(raw)
  IN IF c.ok THEN [ok |-> TRUE, args |-> c.args, error |-> NoError]
     ELSE IF h.ok THEN [ok |-> TRUE, args |-> h.args, error |-> NoError]
     ELSE IF v.ok THEN [ok |-> TRUE, args |-> v.args, error |-> NoError]
     ELSE [ok |-> FALSE, args |-> raw, error |-> <<"Invalid command line arguments:">>]

\* args.includes(s)
Includes(args, s) == \E i \in 1..Len(args) : args[i] = s

\* args.findIndex(arg => arg === s), 1-based, 0 when there is none
FindIndex(args, s) ==
  LET hits == {i \in 1..Len(args) : args[i] = s}
  IN IF hits = {} THEN 0 ELSE CHOOSE i \in hits : \A j \in hits : i <= j

\* parseArgs looking for --version before it looks for --help
parseArgs_VersionFirst(argv, existing) ==
  LET args == SubSeq(argv, 3, Len(argv))
      command == IF Len(args) >= 1 THEN args[1] ELSE UNDEF
      filename == IF Len(args) >= 2 THEN args[2] ELSE UNDEF
      dbPathIndex == FindIndex(args, "--db-path")
      dbPath == IF dbPathIndex # 0 /\ dbPathIndex + 1 <= Len(args)
                THEN args[dbPathIndex + 1] ELSE UNDEF
      yes == IF Includes(args, "-y") \/ Includes(args, "--yes") THEN "true" ELSE "false"
  IN IF Includes(args, "--version") \/ Includes(args, "-v")
     THEN validateCliArgs(RawArgs(UNDEF, UNDEF, UNDEF, FALSE, TRUE, "false"), existing)
     ELSE IF Len(args) = 0 \/ Includes(args, "--help") \/ Includes(args, "-h")
     THEN validateCliArgs(RawArgs(UNDEF, UNDEF, UNDEF, TRUE, FALSE, "false"), existing)
     ELSE IF command = UNDEF \/ command = ""
     THEN [ok |-> FALSE, args |-> RawArgs(UNDEF, UNDEF, UNDEF, FALSE, FALSE, UNDEF),
           error |-> <<"Command is required. Use \"save\" or \"load\"">>]
     ELSE IF filename = UNDEF \/ filename = ""
     THEN [ok |-> FALSE, args |-> RawArgs(UNDEF, UNDEF, UNDEF, FALSE, FALSE, UNDEF),
           error |-> <<"Filename is required">>]
     ELSE validateCliArgs(RawArgs(command, filename, dbPath, FALSE, FALSE, yes), existing)

\* parseArgs(argv)
parseArgs(argv, existing) ==
  LET args == SubSeq(argv, 3, Len(argv))
      command == IF Len(args) >= 1 THEN args[1] ELSE UNDEF
      filename == IF Len(args) >= 2 THEN args[2] ELSE UNDEF
      dbPathIndex == FindIndex(args, "--db-path")
      dbPath == IF dbPathIndex # 0 /\ dbPathIndex + 1 <= Len(args)
                THEN args[dbPathIndex + 1] ELSE UNDEF
      yes == IF Includes(args, "-y") \/ Includes(args, "--yes") THEN "true" ELSE "false"
  IN IF Len(args) = 0 \/ Includes(args, "--help") \/ Includes(args, "-h")
     THEN validateCliArgs(RawArgs(UNDEF, UNDEF, UNDEF, TRUE, FALSE, "false"), existing)
     ELSE IF Includes(args, "--version") \/ Includes(args, "-v")
     THEN validateCliArgs(RawArgs(UNDEF, UNDEF, UNDEF, FALSE, TRUE, "false"), existing)
     ELSE IF command = UNDEF \/ command = ""
     THEN [ok |-> FALSE, args |-> RawArgs(UNDEF, UNDEF, UNDEF, FALSE, FALSE, UNDEF),
           error |-> <<"Command is required. Use \"save\" or \"load\"">>]
     ELSE IF filename = UNDEF \/ filename = ""
     THEN [ok |-> FALSE, args |-> RawArgs(UNDEF, UNDEF, UNDEF, FALSE, FALSE, UNDEF),
           error |-> <<"Filename is required">>]
     ELSE validateCliArgs(RawArgs(command, filename, dbPath, FALSE, FALSE, yes), existing)

\* ------------------------------------------------------------------------
\* main.ts: promptConfirmation
\* ------------------------------------------------------------------------

\* String.prototype.toLowerCase on one character of the model's alphabet
LowerChar(ch) ==
  CASE ch = "Y" -> "y"
    [] ch = "E" -> "e"
    [] ch = "S" -> "s"
    [] ch = "N" -> "n"
    [] OTHER -> ch

toLowerCase(str) == [i \in 1..Len(str) |-> LowerChar(str[i])]

\* promptConfirmation without toLowerCase
promptConfirmation_CaseSensitive(answer) ==
  answer = <<"y">> \/ answer = <<"y", "e", "s">>

\* the callback of rl.question: the value promptConfirmation resolves to for
\* the line answered (a sequence of characters)
promptConfirmation(answer) ==
  toLowerCase(answer) = <<"y">> \/ toLowerCase(answer) = <<"y", "e", "s">>

\* ------------------------------------------------------------------------
\* load.ts and save.ts: the computations between the store operations
\* ------------------------------------------------------------------------

\* the TypeError of a property access the engine refuses
TypeError == <<"TypeError">>

\* ReadModesData without the Array.isArray check
ReadModesData_NoArrayCheck(f) ==
  LET parsed == JSONparse(f.text)
  IN IF ~f.present
     THEN [ok |-> FALSE, modesData |-> JUndefined,
           error |-> <<"Failed to read/parse JSON file: ", "ENOENT">>]
     ELSE IF ~parsed.ok
     THEN [ok |-> FALSE, modesData |-> JUndefined,
           error |-> <<"Failed to read/parse JSON file: ", "SyntaxError">>]
     ELSE [ok |-> TRUE, modesData |-> parsed.v, error |-> NoError]

\* loadModesFromFile, reading the payload: readFileSync, JSON.parse and the
\* Array.isArray check.  f is the payload file [present, text].
ReadModesData(f) ==
  LET parsed == JSONparse(f.text)
  IN IF ~f.present
     THEN [ok |-> FALSE, modesData |-> JUndefined,
           error |-> <<"Failed to read/parse JSON file: ", "ENOENT">>]
     ELSE IF ~parsed.ok
     THEN [ok |-> FALSE, modesData |-> JUndefined,
           error |-> <<"Failed to read/parse JSON file: ", "SyntaxError">>]
     ELSE IF ~IsArray(parsed.v)
     THEN [ok |-> FALSE, modesData |-> parsed.v,
           error |-> <<"JSON file must contain an array of modes">>]
     ELSE [ok |-> TRUE, modesData |-> parsed.v, error |-> NoError]

\* mode?.name || 'Unknown' and mode?.id || 'unknown', as printed
ManifestField(mode, field, fallback) ==
  LET val == IF CanRead(mode) THEN GetProp(mode, field) ELSE JUndefined
  IN IF ~Truthy(val) THEN fallback
     ELSE IF val.t \in {"str", "num", "bool"} THEN val.p
     ELSE "[object]"

\* `${value}` of a template literal throws a TypeError for a value without a
\* primitive form: an object parsed from JSON with a property toString of
\* its own (never callable) has none, and an array has none when one of its
\* elements has none
RECURSIVE ToStringThrows(_)

ToStringThrows(v) ==
  CASE v.t = "obj" -> HasProp(v, "toString")
    [] v.t = "arr" -> \E i \in 1..v.n : ToStringThrows(v.c[i])
    [] OTHER -> FALSE

\* the elements whose line of the manifest cannot be built: a truthy name or
\* id that has no primitive form
ManifestThrowsAt(modes) ==
  {i \in 1..modes.n :
     \E field \in {"name", "id"} :
       LET val == IF CanRead(modes.c[i]) THEN GetProp(modes.c[i], field) ELSE JUndefined
       IN Truthy(val) /\ ToStringThrows(val)}

ManifestThrows(modes) == ManifestThrowsAt(modes) # {}

\* the lines the forEach prints before it ends or throws
ManifestPrinted(modes) ==
  IF ManifestThrows(modes)
  THEN (CHOOSE i \in ManifestThrowsAt(modes) : \A j \in ManifestThrowsAt(modes) : i <= j) - 1
  ELSE modes.n

\* the forEach that prints one line per mode
Manifest(modes) ==
  [i \in 1..modes.n |->
     <<ManifestField(modes.c[i], "name", "Unknown"), ManifestField(modes.c[i], "id", "unknown")>>]

\* MergeModes that sets modes4 on the record itself when the record has no
\* composerState, instead of creating composerState first
MergeModes_NoCreate(value, modesData) ==
  LET parsed == JSONparse(value)
      currentSettings == parsed.v
      needsState == ~Truthy(GetProp(currentSettings, "composerState"))
      composerState == GetProp(currentSettings, "composerState")
  IN IF ~parsed.ok
     THEN [ok |-> FALSE, text |-> <<>>,
           error |-> <<"Failed to parse current settings: ", "SyntaxError">>]
     ELSE IF ~CanWrite(currentSettings)
     THEN [ok |-> FALSE, text |-> <<>>, error |-> TypeError]
     ELSE IF needsState
     THEN [ok |-> TRUE, error |-> NoError,
           text |-> JSONstringify(SetProp(currentSettings, "modes4", modesData))]
     ELSE IF ~CanWrite(composerState)
     THEN [ok |-> FALSE, text |-> <<>>, error |-> TypeError]
     ELSE [ok |-> TRUE, error |-> NoError,
           text |-> JSONstringify(SetProp(currentSettings, "composerState",
                                          SetProp(composerState, "modes4", modesData)))]

\* MergeModes keeping the stored modes the payload does not hold, in front
\* of the imported ones
MergeModes_MergeById(value, modesData) ==
  LET parsed == JSONparse(value)
      state == GetProp(parsed.v, "composerState")
      stored == GetProp(state, "modes4")
      fresh(e) == \A i \in 1..modesData.n : modesData.c[i] # e
      joined == IF IsArray(stored)
                THEN JArr(SelectSeq(Elements(stored), fresh) \o Elements(modesData))
                ELSE modesData
  IN IF ~parsed.ok
     THEN [ok |-> FALSE, text |-> <<>>,
           error |-> <<"Failed to parse current settings: ", "SyntaxError">>]
     ELSE IF ~CanWrite(parsed.v) \/ ~CanWrite(state)
     THEN [ok |-> FALSE, text |-> <<>>, error |-> TypeError]
     ELSE [ok |-> TRUE, error |-> NoError,
           text |-> JSONstringify(SetProp(parsed.v, "composerState",
                                          SetProp(state, "modes4", joined)))]

\* MergeModes writing a record that holds nothing but the imported array
MergeModes_Overwrite(value, modesData) ==
  IF ~JSONparse(value).ok
  THEN [ok |-> FALSE, text |-> <<>>,
        error |-> <<"Failed to parse current settings: ", "SyntaxError">>]
  ELSE [ok |-> TRUE, error |-> NoError,
        text |-> JSONstringify(JObj(<<"composerState">>, <<JObj(<<"modes4">>, <<modesData>>)>>))]

\* MergeModes putting the imported modes in front of the stored ones instead
\* of replacing them
MergeModes_Prepend(value, modesData) ==
  LET parsed == JSONparse(value)
      state == GetProp(parsed.v, "composerState")
      stored == GetProp(state, "modes4")
      joined == IF IsArray(stored) THEN JArr(Elements(modesData) \o Elements(stored))
                ELSE modesData
  IN IF ~parsed.ok
     THEN [ok |-> FALSE, text |-> <<>>,
           error |-> <<"Failed to parse current settings: ", "SyntaxError">>]
     ELSE IF ~CanWrite(parsed.v) \/ ~CanWrite(state)
     THEN [ok |-> FALSE, text |-> <<>>, error |-> TypeError]
     ELSE [ok |-> TRUE, error |-> NoError,
           text |-> JSONstringify(SetProp(parsed.v, "composerState",
                                          SetProp(state, "modes4", joined)))]

\* MergeModes adding the imported modes to the stored ones instead of
\* replacing them
MergeModes_Append(value, modesData) ==
  LET parsed == JSONparse(value)
      state == GetProp(parsed.v, "composerState")
      stored == GetProp(state, "modes4")
      joined == IF IsArray(stored) THEN JArr(Elements(stored) \o Elements(modesData))
                ELSE modesData
  IN IF ~parsed.ok
     THEN [ok |-> FALSE, text |-> <<>>,
           error |-> <<"Failed to parse current settings: ", "SyntaxError">>]
     ELSE IF ~CanWrite(parsed.v) \/ ~CanWrite(state)
     THEN [ok |-> FALSE, text |-> <<>>, error |-> TypeError]
     ELSE [ok |-> TRUE, error |-> NoError,
           text |-> JSONstringify(SetProp(parsed.v, "composerState",
                                          SetProp(state, "modes4", joined)))]

\* loadModesFromFile, from the row fetched to the text handed to the UPDATE:
\* parse the stored value, create composerState when it is falsy, set modes4
MergeModes(value, modesData) ==
  LET parsed == JSONparse(value)
      currentSettings == parsed.v
      needsState == ~Truthy(GetProp(currentSettings, "composerState"))
      withState == IF needsState
                   THEN SetProp(currentSettings, "composerState", JObj(<<>>, <<>>))
                   ELSE currentSettings
      composerState == GetProp(withState, "composerState")
      updated == SetProp(withState, "composerState", SetProp(composerState, "modes4", modesData))
  IN IF ~parsed.ok
     THEN [ok |-> FALSE, text |-> <<>>,
           error |-> <<"Failed to parse current settings: ", "SyntaxError">>]
     ELSE IF ~CanRead(currentSettings)
     THEN [ok |-> FALSE, text |-> <<>>, error |-> TypeError]
     ELSE IF needsState /\ ~CanWrite(currentSettings)
     THEN [ok |-> FALSE, text |-> <<>>, error |-> TypeError]
     ELSE IF ~CanWrite(composerState)
     THEN [ok |-> FALSE, text |-> <<>>, error |-> TypeError]
     ELSE [ok |-> TRUE, text |-> JSONstringify(updated), error |-> NoError]

\* settingsData?.[COMPOSER_STATE_KEY]?.[MODES_KEY]
OptionalModes(settingsData) ==
  LET composerState == IF CanRead(settingsData)
                       THEN GetProp(settingsData, COMPOSER_STATE_KEY) ELSE JUndefined
  IN IF CanRead(composerState) THEN GetProp(composerState, MODES_KEY) ELSE JUndefined

\* ExtractModes refusing a record that has no array of modes
ExtractModes_Strict(value) ==
  LET parsed == JSONparse(value)
      modes == OptionalModes(parsed.v)
  IN IF ~parsed.ok
     THEN [ok |-> FALSE, found |-> FALSE, modes |-> JUndefined,
           error |-> <<"Failed to parse settings JSON: ", "SyntaxError">>]
     ELSE IF ~Truthy(modes) \/ ~IsArray(modes)
     THEN [ok |-> FALSE, found |-> FALSE, modes |-> JUndefined,
           error |-> <<"No custom modes found in database">>]
     ELSE [ok |-> TRUE, found |-> TRUE, modes |-> modes, error |-> NoError]

\* ExtractModes keeping only the modes that have a name
ExtractModes_NamedOnly(value) ==
  LET parsed == JSONparse(value)
      modes == OptionalModes(parsed.v)
      named(mode) == Truthy(GetProp(mode, "name"))
  IN IF ~parsed.ok
     THEN [ok |-> FALSE, found |-> FALSE, modes |-> JUndefined,
           error |-> <<"Failed to parse settings JSON: ", "SyntaxError">>]
     ELSE IF ~Truthy(modes) \/ ~IsArray(modes)
     THEN [ok |-> TRUE, found |-> FALSE, modes |-> JArr(<<>>), error |-> NoError]
     ELSE [ok |-> TRUE, found |-> TRUE, modes |-> JArr(SelectSeq(Elements(modes), named)),
           error |-> NoError]

\* saveModesToFile, from the row fetched to the array handed to
\* writeModesToFile: found is FALSE when the warning is printed and the
\* empty array is written instead
ExtractModes(value) ==
  LET parsed == JSONparse(value)
      modes == OptionalModes(parsed.v)
  IN IF ~parsed.ok
     THEN [ok |-> FALSE, found |-> FALSE, modes |-> JUndefined,
           error |-> <<"Failed to parse settings JSON: ", "SyntaxError">>]
     ELSE IF ~Truthy(modes) \/ ~IsArray(modes)
     THEN [ok |-> TRUE, found |-> FALSE, modes |-> JArr(<<>>), error |-> NoError]
     ELSE [ok |-> TRUE, found |-> TRUE, modes |-> modes, error |-> NoError]

\* previewModes, from the row fetched to the value returned:
\* JSON.parse(result.value), settingsData?.[...]?.[...] || [], and the
\* Array.isArray test
PreviewModes(value) ==
  LET parsed == JSONparse(value)
      modes == OptionalModes(parsed.v)
      orEmpty == IF Truthy(modes) THEN modes ELSE JArr(<<>>)
  IN IF ~parsed.ok
     THEN [ok |-> FALSE, modes |-> JUndefined, error |-> <<"SyntaxError">>]
     ELSE [ok |-> TRUE, modes |-> IF IsArray(orEmpty) THEN orEmpty ELSE JArr(<<>>),
           error |-> NoError]

\* writeModesToFile: the text written to the output file
ModesFileText(modes) == JSONstringifyPretty(modes, 2)

\* ------------------------------------------------------------------------
\* State
\* ------------------------------------------------------------------------

VARIABLES
  argv,          \* process.argv
  existing,      \* the paths for which existsSync answers true
  dbFile,        \* the file at the database path: [readable, bytes]
  row,           \* the ItemTable row of CURSOR_SETTINGS_KEY: [present, value]
  file,          \* the payload file named on the command line: [present, text]
  pc,            \* the statement the program is at
  caller,        \* who called saveModesToFile / loadModesFromFile
  args,          \* the object parseArgs returned
  dbPath,        \* the path findCursorDatabase returned
  gate,          \* the confirmation gate
  answer,        \* the line answered at the prompt
  rl,            \* the readline interface: [created, closed]
  db,            \* the Database handle of the running call: [opens, closes, mode]
  loc,           \* locals of the running call: [modesData, value, text]
  ops,           \* store, file and prompt operations issued so far, in order
  stdout,        \* console.log lines that report a decision
  stderr,        \* console.error lines
  error,         \* the message of the Error in flight, NoError when none
  exitCode,      \* -1 while running, then the exit status
  rowAtStart,    \* row when the running call or command started
  fileAtStart,   \* file when the running call or command started
  calls          \* the calls that returned: [op, ok, rowBefore, fileBefore]

vars == <<argv, existing, dbFile, row, file, pc, caller, args, dbPath, gate, answer,
          rl, db, loc, ops, stdout, stderr, error, exitCode, rowAtStart, fileAtStart, calls>>

envVars == <<argv, existing, dbFile>>

\* ------------------------------------------------------------------------
\* The inputs of the model
\* ------------------------------------------------------------------------

\* most standard locations that exist at once on the host of a command run
MaxExisting == 2

\* longest line answered at the prompt
MaxAnswerLen == 3

\* most bytes that follow the 15 characters in a file of the model
MaxTail == 2

\* most calls of saveModesToFile / loadModesFromFile in a row
MaxCalls == 2

\* longest argument list after the script name
MaxArgs == 4

M1 == JObj(<<"id", "name">>, <<JStr("a"), JStr("A")>>)

M2 == JObj(<<"id">>, <<JStr("b")>>)

\* {"id": "c", "name": {"toString": 1}}: a name without a primitive form
M3 == JObj(<<"id", "name">>, <<JStr("c"), JObj(<<"toString">>, <<JNum("1")>>)>>)

ModeElems == {M1, M2, JNull}

ModeArrays == UNION {[1..len -> ModeElems] : len \in 0..MaxModes}

\* {composerState: {modes4: [...], other: "keep"}, extra: "keep2"}
SettingsWith(modes) ==
  JObj(<<"composerState", "extra">>,
       <<JObj(<<"modes4", "other">>, <<JArr(modes), JStr("keep")>>), JStr("keep2")>>)

\* a settings record whose composerState is the given value
SettingsState(state) == JObj(<<"extra", "composerState">>, <<JStr("keep2"), state>>)

SettingsNoState == JObj(<<"extra">>, <<JStr("keep2")>>)

OddSettings ==
  { SettingsNoState,
    SettingsState(JObj(<<"other">>, <<JStr("keep")>>)),
    SettingsState(JObj(<<"modes4", "other">>, <<JStr("x"), JStr("keep")>>)),
    SettingsState(JNull),
    SettingsState(JBool(FALSE)),
    SettingsState(JStr("x")),
    SettingsState(JNum("1")),
    SettingsState(JArr(<<JNum("1")>>)),
    JNull, JNum("1"), JStr("x"), JArr(<<JNum("1")>>) }

\* {"a":1,"other":"keep","a":2}: a repeated key
RepeatedKeyText ==
  <<LBrace, StrTok("a"), Colon, NumTok("1"), Comma, StrTok("other"), Colon, StrTok("keep"),
    Comma, StrTok("a"), Colon, NumTok("2"), RBrace>>

InvalidTexts == {<<>>, <<LBrace>>, <<LBrack, NumTok("1"), Comma, RBrack>>, <<Garbage>>}

Row(value) == [present |-> TRUE, value |-> value]

NoRow == [present |-> FALSE, value |-> <<>>]

File(text) == [present |-> TRUE, text |-> text]

NoFile == [present |-> FALSE, text |-> <<>>]

PipeRows ==
  {NoRow}
  \cup {Row(JSONstringify(SettingsWith(modes))) : modes \in ModeArrays}
  \cup {Row(JSONstringify(settings)) : settings \in OddSettings}
  \cup {Row(JSONstringifyPretty(SettingsWith(<<M2, M1>>), 2)), Row(RepeatedKeyText),
        Row(JSONstringify(SettingsWith(<<M1, M3>>)))}
  \cup {Row(text) : text \in InvalidTexts}

PipeFiles ==
  {NoFile}
  \cup {File(ModesFileText(JArr(modes))) : modes \in ModeArrays}
  \cup {File(ModesFileText(JArr(<<M2, JNull>>))), File(ModesFileText(JArr(<<M1, M3>>))),
        File(JSONstringify(JArr(<<JNum("1"), JStr("x"), JArr(<<M1>>)>>))),
        File(JSONstringify(SettingsNoState)), File(JSONstringify(JNull))}
  \cup {File(text) : text \in InvalidTexts}

MainRows ==
  {NoRow, Row(JSONstringify(SettingsWith(<<M1>>))), Row(JSONstringify(SettingsNoState)),
   Row(<<LBrace>>)}

MainFiles ==
  {NoFile, File(ModesFileText(JArr(<<M2>>))), File(JSONstringify(SettingsNoState)),
   File(<<LBrack>>)}

ValidDbBytes == SQLiteMagic \o <<0, 4, 0>>

MainDbFiles ==
  { [readable |-> TRUE, bytes |-> ValidDbBytes],
    [readable |-> TRUE, bytes |-> <<80, 75, 3, 4>>],
    [readable |-> FALSE, bytes |-> ValidDbBytes] }

\* the bytes that follow "SQLite format 3" in a file
Tails == UNION {[1..len -> {0, 65, 255}] : len \in 0..MaxTail}

\* the contents of the files handed to validateCursorDatabase: the header
\* with every tail, its proper prefixes, the header in lower and in upper
\* case, with one character replaced, with the highest bit of a byte set,
\* after a space, and two files of other kinds
ValidateBytes ==
  {SQLiteMagic \o tail : tail \in Tails}
  \cup {SubSeq(SQLiteMagic, 1, len) : len \in 0..(Len(SQLiteMagic) - 1)}
  \cup {<<115, 113, 108, 105, 116, 101, 32, 102, 111, 114, 109, 97, 116, 32, 51>> \o tail :
          tail \in {<<>>, <<0>>}}
  \cup {<<83, 81, 76, 73, 84, 69, 32, 70, 79, 82, 77, 65, 84, 32, 51, 0>>}
  \cup {[SQLiteMagic EXCEPT ![i] = 88] \o <<0>> : i \in 1..Len(SQLiteMagic)}
  \cup {[SQLiteMagic EXCEPT ![i] = @ + 128] \o <<0>> : i \in {1, Len(SQLiteMagic)}}
  \cup {<<32>> \o SQLiteMagic \o <<0>>, <<80, 75, 3, 4>>, <<83, 104, 111, 114, 116>>}

ValidateDbFiles == [readable : BOOLEAN, bytes : ValidateBytes]

AllPaths == {possiblePaths[i] : i \in 1..Len(possiblePaths)} \cup {CustomDbPath}

MainArgv ==
  { <<"node", "modeload">>,
    <<"node", "modeload", "--version">>,
    <<"node", "modeload", "save", "modes.json", "--help">>,
    <<"node", "modeload", "save", "modes.json">>,
    <<"node", "modeload", "save", "modes.txt">>,
    <<"node", "modeload", "save", "modes.json", "--db-path", CustomDbPath>>,
    <<"node", "modeload", "load", "modes.json">>,
    <<"node", "modeload", "load", "modes.json", "-y">>,
    <<"node", "modeload", "load", "modes.json", "--yes", "--db-path", CustomDbPath>>,
    <<"node", "modeload", "load">>,
    <<"node", "modeload", "edit", "modes.json">> }

\* the lines answered at the prompt of a command run
MainAnswers ==
  { <<"y">>, <<"Y">>, <<"y", "e", "s">>, <<"Y", "E", "S">>, <<>>, <<"n">>, <<"N">>,
    <<"n", "o">>, <<" ", "y">>, <<"y", " ">>, <<"y", "e">> }

AnswerChars == {"y", "Y", "e", "E", "s", "S", "n", " "}

Answers == UNION {[1..len -> AnswerChars] : len \in 0..MaxAnswerLen}

ArgWords == {"save", "load", "modes.json", "modes.txt", "-y", "--yes", "--db-path", "-h", "-v", ""}

NoArgs == RawArgs(UNDEF, UNDEF, UNDEF, FALSE, FALSE, UNDEF)

NoLoc == [modesData |-> JUndefined, value |-> <<>>, text |-> <<>>]

NoDb == [opens |-> 0, closes |-> 0, mode |-> "none"]

NoRl == [created |-> 0, closed |-> 0]

\* the state every specification starts from, but for its inputs
Blank ==
  /\ caller = "main"
  /\ args = NoArgs
  /\ dbPath = UNDEF
  /\ gate = "NONE"
  /\ answer = <<>>
  /\ rl = NoRl
  /\ db = NoDb
  /\ loc = NoLoc
  /\ ops = <<>>
  /\ stdout = <<>>
  /\ stderr = <<>>
  /\ error = NoError
  /\ exitCode = -1
  /\ rowAtStart = row
  /\ fileAtStart = file
  /\ calls = <<>>

\* one run of the command: process.argv, the file system and the store are
\* what the host holds when main starts
Init ==
  /\ argv \in MainArgv
  /\ existing \in {paths \in SUBSET AllPaths : Cardinality(paths) <= MaxExisting}
  /\ dbFile \in MainDbFiles
  /\ row \in MainRows
  /\ file \in MainFiles
  /\ pc = "main"
  /\ Blank

\* ------------------------------------------------------------------------
\* main.ts: main
\* ------------------------------------------------------------------------

storeVars == <<row, file>>

gateVars == <<gate, answer, rl>>

histVars == <<rowAtStart, fileAtStart, calls>>

outVars == <<stdout, stderr, exitCode>>

\* const args = parseArgs()
main_parseArgs ==
  /\ pc = "main"
  /\ LET parsed == parseArgs(argv, existing)
     IN IF parsed.ok
        THEN /\ args' = parsed.args
             /\ pc' = "args"
             /\ error' = NoError
        ELSE /\ args' = args
             /\ pc' = "catch"
             /\ error' = parsed.error
  /\ UNCHANGED <<envVars, storeVars, gateVars, histVars, outVars, caller, dbPath, db, loc, ops>>

\* if ('help' in args && args.help) { showHelp(); return; }
main_showHelp ==
  /\ pc = "args"
  /\ args.help
  /\ stdout' = Append(stdout, "help")
  /\ pc' = "exit"
  /\ exitCode' = 0
  /\ UNCHANGED <<envVars, storeVars, gateVars, histVars, stderr, caller, args, dbPath, db,
                 loc, ops, error>>

\* if ('version' in args && args.version) { showVersion(); return; }
main_showVersion ==
  /\ pc = "args"
  /\ ~args.help
  /\ args.version
  /\ stdout' = Append(stdout, "version")
  /\ pc' = "exit"
  /\ exitCode' = 0
  /\ UNCHANGED <<envVars, storeVars, gateVars, histVars, stderr, caller, args, dbPath, db,
                 loc, ops, error>>

\* const dbPath = findCursorDatabase(commandArgs.dbPath), inside
\* if (commandArgs.command && commandArgs.filename)
main_findCursorDatabase ==
  /\ pc = "args"
  /\ ~args.help
  /\ ~args.version
  /\ IF args.command \in {UNDEF, ""} \/ args.filename \in {UNDEF, ""}
     THEN /\ pc' = "exit"
          /\ exitCode' = 0
          /\ UNCHANGED <<dbPath, error>>
     ELSE LET found == findCursorDatabase(args.dbPath, existing)
          IN /\ dbPath' = found.path
             /\ error' = found.error
             /\ pc' = IF found.ok THEN "validate" ELSE "catch"
             /\ UNCHANGED exitCode
  /\ UNCHANGED <<envVars, storeVars, gateVars, histVars, stdout, stderr, caller, args, db,
                 loc, ops>>

\* main_validateCursorDatabase going on whatever validateCursorDatabase
\* returned
main_validateCursorDatabase_Ignored ==
  /\ pc = "validate"
  /\ pc' = "switch"
  /\ error' = NoError
  /\ UNCHANGED <<envVars, storeVars, gateVars, histVars, outVars, caller, args, dbPath, db,
                 loc, ops>>

\* if (validateCursorDatabase(dbPath)) ... else throw
main_validateCursorDatabase ==
  /\ pc = "validate"
  /\ IF validateCursorDatabase(dbPath, existing, dbFile.readable, dbFile.bytes)
     THEN /\ pc' = "switch"
          /\ error' = NoError
     ELSE /\ pc' = "catch"
          /\ error' = <<"Database validation failed - not a valid SQLite file">>
  /\ UNCHANGED <<envVars, storeVars, gateVars, histVars, outVars, caller, args, dbPath, db,
                 loc, ops>>

\* switch (commandArgs.command), and the entry of handleSaveCommand
main_switch ==
  /\ pc = "switch"
  /\ CASE args.command = "save" ->
            /\ pc' = "save_open"
            /\ error' = NoError
       [] args.command = "load" ->
            /\ pc' = "handleLoad"
            /\ error' = NoError
       [] OTHER ->
            /\ pc' = "catch"
            /\ error' = <<"Unknown command: ", args.command>>
  /\ caller' = "main"
  /\ db' = NoDb
  /\ loc' = NoLoc
  /\ UNCHANGED <<envVars, storeVars, gateVars, histVars, outVars, args, dbPath, ops>>

\* the parameter skipConfirmation of handleLoadCommand: commandArgs.yes, and
\* false by default when that is undefined
skipConfirmation == IF args.yes = UNDEF THEN FALSE ELSE args.yes = "true"

\* handleLoadCommand reading and checking the payload file before it asks:
\* a payload that is refused ends the command without a prompt
handleLoadCommand_ReadFirst ==
  /\ pc = "handleLoad"
  /\ LET read == ReadModesData(file)
     IN IF read.ok
        THEN /\ rl' = [rl EXCEPT !.created = @ + 1]
             /\ gate' = "PENDING"
             /\ ops' = ops \o <<"read", "prompt">>
             /\ pc' = "prompt"
             /\ UNCHANGED error
        ELSE /\ ops' = Append(ops, "read")
             /\ error' = read.error
             /\ pc' = "load_return"
             /\ UNCHANGED <<rl, gate>>
  /\ UNCHANGED <<envVars, storeVars, histVars, outVars, caller, args, dbPath, answer, db,
                 loc>>

\* handleLoadCommand without its gate: the import follows the warning at once
handleLoadCommand_NoGate ==
  /\ pc = "handleLoad"
  /\ stdout' = Append(stdout, "Skipping confirmation (auto-confirm enabled)")
  /\ pc' = "load_read"
  /\ UNCHANGED <<envVars, storeVars, histVars, stderr, exitCode, caller, args, dbPath,
                 gate, answer, rl, db, loc, ops, error>>

\* handleLoadCommand up to the prompt: with skipConfirmation the import is
\* next, otherwise promptConfirmation creates the readline interface and
\* asks the question
handleLoadCommand ==
  /\ pc = "handleLoad"
  /\ IF skipConfirmation
     THEN /\ stdout' = Append(stdout, "Skipping confirmation (auto-confirm enabled)")
          /\ pc' = "load_read"
          /\ UNCHANGED <<gate, rl, ops>>
     ELSE /\ rl' = [rl EXCEPT !.created = @ + 1]
          /\ gate' = "PENDING"
          /\ ops' = Append(ops, "prompt")
          /\ pc' = "prompt"
          /\ UNCHANGED stdout
  /\ UNCHANGED <<envVars, storeVars, histVars, stderr, exitCode, caller, args, dbPath,
                 answer, db, loc, error>>

\* rl_answer without the return of the cancelled branch: the import follows
\* whatever was answered
rl_answer_NoReturn(line) ==
  /\ pc = "prompt"
  /\ answer' = line
  /\ rl' = [rl EXCEPT !.closed = @ + 1]
  /\ gate' = IF promptConfirmation(line) THEN "CONFIRMED" ELSE "CANCELLED"
  /\ stdout' = IF promptConfirmation(line) THEN stdout
               ELSE Append(stdout, "Operation cancelled by user")
  /\ pc' = "load_read"
  /\ UNCHANGED <<envVars, storeVars, histVars, stderr, exitCode, caller, args, dbPath, db,
                 loc, ops, error>>

\* rl_answer raising an Error when the answer is not affirmative
rl_answer_CancelThrows(line) ==
  /\ pc = "prompt"
  /\ answer' = line
  /\ rl' = [rl EXCEPT !.closed = @ + 1]
  /\ IF promptConfirmation(line)
     THEN /\ gate' = "CONFIRMED"
          /\ pc' = "load_read"
          /\ UNCHANGED error
     ELSE /\ gate' = "CANCELLED"
          /\ error' = <<"Operation cancelled by user">>
          /\ pc' = "catch"
  /\ UNCHANGED <<envVars, storeVars, histVars, outVars, caller, args, dbPath, db, loc, ops>>

\* rl_answer asking again when the answer is neither affirmative nor "n"
rl_answer_Reprompt(line) ==
  /\ pc = "prompt"
  /\ answer' = line
  /\ IF promptConfirmation(line)
     THEN /\ gate' = "CONFIRMED"
          /\ rl' = [rl EXCEPT !.closed = @ + 1]
          /\ pc' = "load_read"
          /\ UNCHANGED <<stdout, exitCode, ops>>
     ELSE IF toLowerCase(line) = <<"n">>
          THEN /\ gate' = "CANCELLED"
               /\ rl' = [rl EXCEPT !.closed = @ + 1]
               /\ stdout' = Append(stdout, "Operation cancelled by user")
               /\ pc' = "exit"
               /\ exitCode' = 0
               /\ UNCHANGED ops
          ELSE /\ gate' = "PENDING"
               /\ rl' = [rl EXCEPT !.closed = @ + 1, !.created = @ + 1]
               /\ ops' = Append(ops, "prompt")
               /\ pc' = "prompt"
               /\ UNCHANGED <<stdout, exitCode>>
  /\ UNCHANGED <<envVars, storeVars, histVars, stderr, caller, args, dbPath, db, loc, error>>

\* rl_answer with a timeout: the prompt may give up without a line and end
\* the run as cancelled
rl_answer_Timeout(line) ==
  /\ pc = "prompt"
  /\ \E timeout \in BOOLEAN :
       IF timeout
       THEN /\ gate' = "CANCELLED"
            /\ stdout' = Append(stdout, "Operation cancelled by user")
            /\ pc' = "exit"
            /\ exitCode' = 0
            /\ UNCHANGED <<answer, rl>>
       ELSE /\ answer' = line
            /\ rl' = [rl EXCEPT !.closed = @ + 1]
            /\ IF promptConfirmation(line)
               THEN /\ gate' = "CONFIRMED"
                    /\ pc' = "load_read"
                    /\ UNCHANGED <<stdout, exitCode>>
               ELSE /\ gate' = "CANCELLED"
                    /\ stdout' = Append(stdout, "Operation cancelled by user")
                    /\ pc' = "exit"
                    /\ exitCode' = 0
  /\ UNCHANGED <<envVars, storeVars, histVars, stderr, caller, args, dbPath, db, loc, ops,
                 error>>

\* the callback of rl.question and what handleLoadCommand does with the
\* value awaited: line is the line received
rl_answer(line) ==
  /\ pc = "prompt"
  /\ answer' = line
  /\ rl' = [rl EXCEPT !.closed = @ + 1]
  /\ IF promptConfirmation(line)
     THEN /\ gate' = "CONFIRMED"
          /\ pc' = "load_read"
          /\ UNCHANGED <<stdout, exitCode>>
     ELSE /\ gate' = "CANCELLED"
          /\ stdout' = Append(stdout, "Operation cancelled by user")
          /\ pc' = "exit"
          /\ exitCode' = 0
  /\ UNCHANGED <<envVars, storeVars, histVars, stderr, caller, args, dbPath, db, loc, ops,
                 error>>

\* the catch blocks of handleSaveCommand and handleLoadCommand, and their
\* return to main
handleCommand_return ==
  /\ pc \in {"save_return", "load_return"}
  /\ caller = "main"
  /\ IF error = NoError
     THEN /\ pc' = "exit"
          /\ exitCode' = 0
          /\ UNCHANGED error
     ELSE /\ pc' = "catch"
          /\ error' = <<IF pc = "save_return" THEN "Save failed: " ELSE "Load failed: ">> \o error
          /\ UNCHANGED exitCode
  /\ UNCHANGED <<envVars, storeVars, gateVars, histVars, stdout, stderr, caller, args,
                 dbPath, db, loc, ops>>

\* main_catch without process.exit(1): the message is printed and main
\* returns
main_catch_NoExit ==
  /\ pc = "catch"
  /\ stderr' = Append(stderr, error)
  /\ exitCode' = 0
  /\ pc' = "exit"
  /\ UNCHANGED <<envVars, storeVars, gateVars, histVars, stdout, caller, args, dbPath, db,
                 loc, ops, error>>

\* catch (error) { console.error(...); process.exit(1); }
main_catch ==
  /\ pc = "catch"
  /\ stderr' = Append(stderr, error)
  /\ exitCode' = 1
  /\ pc' = "exit"
  /\ UNCHANGED <<envVars, storeVars, gateVars, histVars, stdout, caller, args, dbPath, db,
                 loc, ops, error>>

\* ------------------------------------------------------------------------
\* load.ts: loadModesFromFile
\* ------------------------------------------------------------------------

\* readFileSync, JSON.parse, the array check and the manifest
loadModesFromFile_read ==
  /\ pc = "load_read"
  /\ LET read == ReadModesData(file)
     IN /\ ops' = Append(ops, "read")
        /\ loc' = [loc EXCEPT !.modesData = read.modesData]
        /\ IF read.ok
           THEN /\ stdout' = Append(stdout, "Found modes to import") \o
                             [i \in 1..ManifestPrinted(read.modesData) |->
                                Manifest(read.modesData)[i][1]]
                /\ IF ManifestThrows(read.modesData)
                   THEN /\ error' = TypeError
                        /\ pc' = "load_return"
                   ELSE /\ error' = read.error
                        /\ pc' = "load_open"
           ELSE /\ stdout' = stdout
                /\ error' = read.error
                /\ pc' = "load_return"
  /\ UNCHANGED <<envVars, storeVars, gateVars, histVars, stderr, exitCode, caller, args,
                 dbPath, db>>

\* const db = new Database(dbPath, { readonly: false }): the engine may
\* refuse to open the file
loadModesFromFile_open ==
  /\ pc = "load_open"
  /\ \E fails \in BOOLEAN :
       IF fails
       THEN /\ error' = <<"SqliteError: unable to open database file">>
            /\ pc' = "load_return"
            /\ UNCHANGED <<db, ops>>
       ELSE /\ db' = [db EXCEPT !.opens = @ + 1, !.mode = "readwrite"]
            /\ ops' = Append(ops, "open readwrite")
            /\ pc' = "load_fetch"
            /\ UNCHANGED error
  /\ UNCHANGED <<envVars, storeVars, gateVars, histVars, outVars, caller, args, dbPath, loc>>

\* loadModesFromFile_fetch taking an empty record when the store has no row
\* of the key
loadModesFromFile_fetch_Create ==
  /\ pc = "load_fetch"
  /\ \E fails \in BOOLEAN :
       IF fails
       THEN /\ error' = <<"SqliteError: fetch failed">>
            /\ pc' = "load_finally"
            /\ UNCHANGED <<loc, ops>>
       ELSE /\ ops' = Append(ops, "fetch")
            /\ loc' = [loc EXCEPT !.value = IF row.present THEN row.value
                                            ELSE <<LBrace, RBrace>>]
            /\ pc' = "load_merge"
            /\ UNCHANGED error
  /\ UNCHANGED <<envVars, storeVars, gateVars, histVars, outVars, caller, args, dbPath, db>>

\* loadModesFromFile_fetch with db.close() at the end of the try block
\* instead of in finally: a failure leaves the function at once
loadModesFromFile_fetch_NoFinally ==
  /\ pc = "load_fetch"
  /\ \E fails \in BOOLEAN :
       IF fails
       THEN /\ error' = <<"SqliteError: fetch failed">>
            /\ pc' = "load_return"
            /\ UNCHANGED <<loc, ops>>
       ELSE /\ ops' = Append(ops, "fetch")
            /\ IF row.present
               THEN /\ loc' = [loc EXCEPT !.value = row.value]
                    /\ pc' = "load_merge"
                    /\ UNCHANGED error
               ELSE /\ error' = <<"Settings not found in database. Key: ", CURSOR_SETTINGS_KEY>>
                    /\ pc' = "load_return"
                    /\ UNCHANGED loc
  /\ UNCHANGED <<envVars, storeVars, gateVars, histVars, outVars, caller, args, dbPath, db>>

\* db.prepare(SELECT ...).get(CURSOR_SETTINGS_KEY) and the !result check
loadModesFromFile_fetch ==
  /\ pc = "load_fetch"
  /\ \E fails \in BOOLEAN :
       IF fails
       THEN /\ error' = <<"SqliteError: fetch failed">>
            /\ pc' = "load_finally"
            /\ UNCHANGED <<loc, ops>>
       ELSE /\ ops' = Append(ops, "fetch")
            /\ IF row.present
               THEN /\ loc' = [loc EXCEPT !.value = row.value]
                    /\ pc' = "load_merge"
                    /\ UNCHANGED error
               ELSE /\ error' = <<"Settings not found in database. Key: ", CURSOR_SETTINGS_KEY>>
                    /\ pc' = "load_finally"
                    /\ UNCHANGED loc
  /\ UNCHANGED <<envVars, storeVars, gateVars, histVars, outVars, caller, args, dbPath, db>>

\* JSON.parse(result.value), composerState, modes4 and JSON.stringify
loadModesFromFile_merge ==
  /\ pc = "load_merge"
  /\ LET merged == MergeModes(loc.value, loc.modesData)
     IN /\ loc' = [loc EXCEPT !.text = merged.text]
        /\ error' = merged.error
        /\ pc' = IF merged.ok THEN "load_update" ELSE "load_finally"
  /\ UNCHANGED <<envVars, storeVars, gateVars, histVars, outVars, caller, args, dbPath, db,
                 ops>>

\* loadModesFromFile_update with INSERT OR REPLACE: the row is written
\* whether the key has one or not
loadModesFromFile_update_Upsert ==
  /\ pc = "load_update"
  /\ \E fails \in BOOLEAN :
       IF fails
       THEN /\ error' = <<"SqliteError: update failed">>
            /\ UNCHANGED <<row, ops, stdout>>
       ELSE /\ ops' = Append(ops, "update")
            /\ row' = Row(loc.text)
            /\ stdout' = Append(stdout, "Successfully loaded modes")
            /\ UNCHANGED error
  /\ pc' = "load_finally"
  /\ UNCHANGED <<envVars, file, gateVars, histVars, stderr, exitCode, caller, args, dbPath,
                 db, loc>>

\* loadModesFromFile_update running the statement again after a failure
loadModesFromFile_update_Retry ==
  /\ pc = "load_update"
  /\ \E fails \in BOOLEAN :
       IF fails
       THEN /\ error' = <<"SqliteError: update failed">>
            /\ pc' = "load_update"
            /\ UNCHANGED <<row, ops, stdout>>
       ELSE /\ ops' = Append(ops, "update")
            /\ row' = IF row.present THEN Row(loc.text) ELSE row
            /\ stdout' = Append(stdout, "Successfully loaded modes")
            /\ pc' = "load_finally"
            /\ UNCHANGED error
  /\ UNCHANGED <<envVars, file, gateVars, histVars, stderr, exitCode, caller, args, dbPath,
                 db, loc>>

\* db.prepare(UPDATE ...).run(JSON.stringify(currentSettings), key): the
\* statement changes the row of the key if there is one
loadModesFromFile_update ==
  /\ pc = "load_update"
  /\ \E fails \in BOOLEAN :
       IF fails
       THEN /\ error' = <<"SqliteError: update failed">>
            /\ UNCHANGED <<row, ops, stdout>>
       ELSE /\ ops' = Append(ops, "update")
            /\ row' = IF row.present THEN Row(loc.text) ELSE row
            /\ stdout' = Append(stdout, "Successfully loaded modes")
            /\ UNCHANGED error
  /\ pc' = "load_finally"
  /\ UNCHANGED <<envVars, file, gateVars, histVars, stderr, exitCode, caller, args, dbPath,
                 db, loc>>

\* finally { db.close(); }
loadModesFromFile_finally ==
  /\ pc = "load_finally"
  /\ db' = [db EXCEPT !.closes = @ + 1]
  /\ ops' = Append(ops, "close")
  /\ pc' = "load_return"
  /\ UNCHANGED <<envVars, storeVars, gateVars, histVars, outVars, caller, args, dbPath, loc,
                 error>>

\* ------------------------------------------------------------------------
\* save.ts: saveModesToFile and writeModesToFile
\* ------------------------------------------------------------------------

\* saveModesToFile_open with { readonly: false }
saveModesToFile_open_ReadWrite ==
  /\ pc = "save_open"
  /\ \E fails \in BOOLEAN :
       IF fails
       THEN /\ error' = <<"SqliteError: unable to open database file">>
            /\ pc' = "save_return"
            /\ UNCHANGED <<db, ops>>
       ELSE /\ db' = [db EXCEPT !.opens = @ + 1, !.mode = "readwrite"]
            /\ ops' = Append(ops, "open readwrite")
            /\ pc' = "save_fetch"
            /\ UNCHANGED error
  /\ UNCHANGED <<envVars, storeVars, gateVars, histVars, outVars, caller, args, dbPath, loc>>

\* const db = new Database(dbPath, { readonly: true })
saveModesToFile_open ==
  /\ pc = "save_open"
  /\ \E fails \in BOOLEAN :
       IF fails
       THEN /\ error' = <<"SqliteError: unable to open database file">>
            /\ pc' = "save_return"
            /\ UNCHANGED <<db, ops>>
       ELSE /\ db' = [db EXCEPT !.opens = @ + 1, !.mode = "readonly"]
            /\ ops' = Append(ops, "open readonly")
            /\ pc' = "save_fetch"
            /\ UNCHANGED error
  /\ UNCHANGED <<envVars, storeVars, gateVars, histVars, outVars, caller, args, dbPath, loc>>

\* saveModesToFile_fetch taking an empty record when the store has no row of
\* the key, or a row whose value is not JSON
saveModesToFile_fetch_Empty ==
  /\ pc = "save_fetch"
  /\ \E fails \in BOOLEAN :
       IF fails
       THEN /\ error' = <<"SqliteError: fetch failed">>
            /\ pc' = "save_finally"
            /\ UNCHANGED <<loc, ops>>
       ELSE /\ ops' = Append(ops, "fetch")
            /\ loc' = [loc EXCEPT !.value = IF row.present /\ JSONparse(row.value).ok
                                            THEN row.value ELSE <<LBrace, RBrace>>]
            /\ pc' = "save_extract"
            /\ UNCHANGED error
  /\ UNCHANGED <<envVars, storeVars, gateVars, histVars, outVars, caller, args, dbPath, db>>

\* db.prepare(SELECT ...).get(CURSOR_SETTINGS_KEY) and the !result check
saveModesToFile_fetch ==
  /\ pc = "save_fetch"
  /\ \E fails \in BOOLEAN :
       IF fails
       THEN /\ error' = <<"SqliteError: fetch failed">>
            /\ pc' = "save_finally"
            /\ UNCHANGED <<loc, ops>>
       ELSE /\ ops' = Append(ops, "fetch")
            /\ IF row.present
               THEN /\ loc' = [loc EXCEPT !.value = row.value]
                    /\ pc' = "save_extract"
                    /\ UNCHANGED error
               ELSE /\ error' = <<"Settings not found in database. Key: ", CURSOR_SETTINGS_KEY>>
                    /\ pc' = "save_finally"
                    /\ UNCHANGED loc
  /\ UNCHANGED <<envVars, storeVars, gateVars, histVars, outVars, caller, args, dbPath, db>>

\* JSON.parse(result.value), the extraction of modes, the warning or the
\* manifest
saveModesToFile_extract ==
  /\ pc = "save_extract"
  /\ LET extracted == ExtractModes(loc.value)
     IN /\ loc' = [loc EXCEPT !.modesData = extracted.modes]
        /\ error' = IF extracted.ok /\ ManifestThrows(extracted.modes) THEN TypeError
                    ELSE extracted.error
        /\ pc' = IF extracted.ok /\ ~ManifestThrows(extracted.modes) THEN "save_write"
                 ELSE "save_finally"
        /\ stdout' = IF ~extracted.ok THEN stdout
                     ELSE IF ~extracted.found
                     THEN Append(stdout, "No custom modes found in database")
                     ELSE Append(stdout, "Found modes") \o
                          [i \in 1..ManifestPrinted(extracted.modes) |->
                             Manifest(extracted.modes)[i][1]]
  /\ UNCHANGED <<envVars, storeVars, gateVars, histVars, stderr, exitCode, caller, args,
                 dbPath, db, ops>>

\* writeModesToFile after db.close() instead of before it
writeModesToFile_AfterClose ==
  /\ pc = "save_write"
  /\ db' = [db EXCEPT !.closes = @ + 1]
  /\ \E fails \in BOOLEAN :
       IF fails
       THEN /\ error' = <<"Failed to write file: ", "EACCES">>
            /\ ops' = Append(ops, "close")
            /\ UNCHANGED <<file, loc>>
       ELSE /\ file' = File(ModesFileText(loc.modesData))
            /\ loc' = [loc EXCEPT !.text = ModesFileText(loc.modesData)]
            /\ ops' = ops \o <<"close", "write">>
            /\ UNCHANGED error
  /\ pc' = "save_return"
  /\ UNCHANGED <<envVars, row, gateVars, histVars, outVars, caller, args, dbPath>>

\* writeModesToFile(modes, outputFile): writeFileSync may fail
writeModesToFile ==
  /\ pc = "save_write"
  /\ \E fails \in BOOLEAN :
       IF fails
       THEN /\ error' = <<"Failed to write file: ", "EACCES">>
            /\ UNCHANGED <<file, ops, loc>>
       ELSE /\ file' = File(ModesFileText(loc.modesData))
            /\ loc' = [loc EXCEPT !.text = ModesFileText(loc.modesData)]
            /\ ops' = Append(ops, "write")
            /\ UNCHANGED error
  /\ pc' = "save_finally"
  /\ UNCHANGED <<envVars, row, gateVars, histVars, outVars, caller, args, dbPath, db>>

\* finally { db.close(); }
saveModesToFile_finally ==
  /\ pc = "save_finally"
  /\ db' = [db EXCEPT !.closes = @ + 1]
  /\ ops' = Append(ops, "close")
  /\ pc' = "save_return"
  /\ UNCHANGED <<envVars, storeVars, gateVars, histVars, outVars, caller, args, dbPath, loc,
                 error>>

\* ------------------------------------------------------------------------
\* save.ts: previewModes
\* ------------------------------------------------------------------------

\* previewModes(dbPath) is called
call_previewModes ==
  /\ pc = "preview"
  /\ pc' = "preview_open"
  /\ db' = NoDb
  /\ loc' = NoLoc
  /\ ops' = <<>>
  /\ error' = NoError
  /\ rowAtStart' = row
  /\ fileAtStart' = file
  /\ UNCHANGED <<envVars, storeVars, gateVars, outVars, caller, args, dbPath, calls>>

\* const db = new Database(dbPath, { readonly: true })
previewModes_open ==
  /\ pc = "preview_open"
  /\ \E fails \in BOOLEAN :
       IF fails
       THEN /\ error' = <<"SqliteError: unable to open database file">>
            /\ pc' = "preview_return"
            /\ UNCHANGED <<db, ops>>
       ELSE /\ db' = [db EXCEPT !.opens = @ + 1, !.mode = "readonly"]
            /\ ops' = Append(ops, "open readonly")
            /\ pc' = "preview_fetch"
            /\ UNCHANGED error
  /\ UNCHANGED <<envVars, storeVars, gateVars, histVars, outVars, caller, args, dbPath, loc>>

\* previewModes_fetch raising the Error of saveModesToFile when the store
\* has no row of the key
previewModes_fetch_NotFound ==
  /\ pc = "preview_fetch"
  /\ \E fails \in BOOLEAN :
       IF fails
       THEN /\ error' = <<"SqliteError: fetch failed">>
            /\ UNCHANGED <<loc, ops>>
       ELSE /\ ops' = Append(ops, "fetch")
            /\ IF row.present
               THEN /\ loc' = [loc EXCEPT !.value = row.value,
                                          !.modesData = PreviewModes(row.value).modes]
                    /\ error' = PreviewModes(row.value).error
               ELSE /\ error' = <<"Settings not found in database. Key: ", CURSOR_SETTINGS_KEY>>
                    /\ UNCHANGED loc
  /\ pc' = "preview_finally"
  /\ UNCHANGED <<envVars, storeVars, gateVars, histVars, outVars, caller, args, dbPath, db>>

\* stmt.get(CURSOR_SETTINGS_KEY), if (!result) return [], and the value
\* returned otherwise: loc.modesData takes the value returned
previewModes_fetch ==
  /\ pc = "preview_fetch"
  /\ \E fails \in BOOLEAN :
       IF fails
       THEN /\ error' = <<"SqliteError: fetch failed">>
            /\ UNCHANGED <<loc, ops>>
       ELSE /\ ops' = Append(ops, "fetch")
            /\ IF row.present
               THEN /\ loc' = [loc EXCEPT !.value = row.value,
                                          !.modesData = PreviewModes(row.value).modes]
                    /\ error' = PreviewModes(row.value).error
               ELSE /\ loc' = [loc EXCEPT !.modesData = JArr(<<>>)]
                    /\ UNCHANGED error
  /\ pc' = "preview_finally"
  /\ UNCHANGED <<envVars, storeVars, gateVars, histVars, outVars, caller, args, dbPath, db>>

\* finally { db.close(); }
previewModes_finally ==
  /\ pc = "preview_finally"
  /\ db' = [db EXCEPT !.closes = @ + 1]
  /\ ops' = Append(ops, "close")
  /\ pc' = "preview_return"
  /\ UNCHANGED <<envVars, storeVars, gateVars, histVars, outVars, caller, args, dbPath, loc,
                 error>>

\* ------------------------------------------------------------------------
\* Calls of the two exported functions in a row, as a test or a script
\* makes them
\* ------------------------------------------------------------------------

\* saveModesToFile(dbPath, outputFile) or loadModesFromFile(dbPath, inputFile)
call(op) ==
  /\ pc = "idle"
  /\ Len(calls) < MaxCalls
  /\ pc' = IF op = "save" THEN "save_open" ELSE "load_read"
  /\ db' = NoDb
  /\ loc' = NoLoc
  /\ ops' = <<>>
  /\ error' = NoError
  /\ rowAtStart' = row
  /\ fileAtStart' = file
  /\ UNCHANGED <<envVars, storeVars, gateVars, outVars, caller, args, dbPath, calls>>

\* the promise settles: resolved when no Error is in flight
call_return ==
  /\ pc \in {"save_return", "load_return"}
  /\ caller = "direct"
  /\ calls' = Append(calls, [op |-> IF pc = "save_return" THEN "save" ELSE "load",
                             ok |-> error = NoError,
                             rowBefore |-> rowAtStart,
                             fileBefore |-> fileAtStart])
  /\ pc' = "idle"
  /\ UNCHANGED <<envVars, storeVars, gateVars, outVars, caller, args, dbPath, db, loc, ops,
                 error, rowAtStart, fileAtStart>>

\* findCursorDatabase(args.dbPath) called on its own, as database.test.ts
\* calls it: ops takes the paths handed to existsSync
call_findCursorDatabase ==
  /\ pc = "find"
  /\ LET found == findCursorDatabase(args.dbPath, existing)
     IN /\ dbPath' = found.path
        /\ error' = found.error
        /\ ops' = found.probed
  /\ pc' = "found"
  /\ UNCHANGED <<envVars, storeVars, gateVars, histVars, outVars, caller, args, db, loc>>

\* validateCursorDatabase(dbPath) called on its own, as database.test.ts
\* calls it: ops takes the file system calls made
call_validateCursorDatabase ==
  /\ pc = "validating"
  /\ \E deleted \in BOOLEAN :
       LET outcome == validateCursorDatabase_try(dbPath, existing, deleted,
                                                 dbFile.readable, dbFile.bytes)
       IN /\ ops' = outcome.probes
          /\ error' = outcome.thrown
          /\ pc' = IF outcome.thrown # NoError THEN "thrown"
                   ELSE IF outcome.value THEN "valid" ELSE "invalid"
  /\ UNCHANGED <<envVars, storeVars, gateVars, histVars, outVars, caller, args, dbPath, db,
                 loc>>

\* ------------------------------------------------------------------------
\* Specifications
\* ------------------------------------------------------------------------

Pipeline ==
  \/ loadModesFromFile_read
  \/ loadModesFromFile_open
  \/ loadModesFromFile_fetch
  \/ loadModesFromFile_merge
  \/ loadModesFromFile_update
  \/ loadModesFromFile_finally
  \/ saveModesToFile_open
  \/ saveModesToFile_fetch
  \/ saveModesToFile_extract
  \/ writeModesToFile
  \/ saveModesToFile_finally

\* one run of the command
Next ==
  \/ main_parseArgs
  \/ main_showHelp
  \/ main_showVersion
  \/ main_findCursorDatabase
  \/ main_validateCursorDatabase
  \/ main_switch
  \/ handleLoadCommand
  \/ \E line \in MainAnswers : rl_answer(line)
  \/ handleCommand_return
  \/ main_catch
  \/ Pipeline

Spec == Init /\ [][Next]_vars

\* the exported functions called on a store and a payload file
InitPipe ==
  /\ argv = <<>>
  /\ existing = {CustomDbPath}
  /\ dbFile = [readable |-> TRUE, bytes |-> ValidDbBytes]
  /\ row \in PipeRows
  /\ file \in PipeFiles
  /\ pc = "idle"
  /\ args = NoArgs
  /\ caller = "direct"
  /\ dbPath = CustomDbPath
  /\ gate = "NONE"
  /\ answer = <<>>
  /\ rl = NoRl
  /\ db = NoDb
  /\ loc = NoLoc
  /\ ops = <<>>
  /\ stdout = <<>>
  /\ stderr = <<>>
  /\ error = NoError
  /\ exitCode = -1
  /\ rowAtStart = row
  /\ fileAtStart = file
  /\ calls = <<>>

NextPipe ==
  \/ call("save")
  \/ call("load")
  \/ call_return
  \/ Pipeline

SpecPipe == InitPipe /\ [][NextPipe]_vars

\* previewModes called on a store
InitPreview ==
  /\ argv = <<>>
  /\ existing = {CustomDbPath}
  /\ dbFile = [readable |-> TRUE, bytes |-> ValidDbBytes]
  /\ row \in PipeRows
  /\ file = NoFile
  /\ pc = "preview"
  /\ args = NoArgs
  /\ caller = "direct"
  /\ dbPath = CustomDbPath
  /\ gate = "NONE"
  /\ answer = <<>>
  /\ rl = NoRl
  /\ db = NoDb
  /\ loc = NoLoc
  /\ ops = <<>>
  /\ stdout = <<>>
  /\ stderr = <<>>
  /\ error = NoError
  /\ exitCode = -1
  /\ rowAtStart = row
  /\ fileAtStart = file
  /\ calls = <<>>

NextPreview ==
  \/ call_previewModes
  \/ previewModes_open
  \/ previewModes_fetch
  \/ previewModes_finally

SpecPreview == InitPreview /\ [][NextPreview]_vars

\* findCursorDatabase called with or without a custom path on every host
InitFind ==
  /\ argv = <<>>
  /\ existing \in SUBSET AllPaths
  /\ dbFile = [readable |-> TRUE, bytes |-> ValidDbBytes]
  /\ row = NoRow
  /\ file = NoFile
  /\ pc = "find"
  /\ \E customPath \in {UNDEF, "", CustomDbPath} :
       args = RawArgs(UNDEF, UNDEF, customPath, FALSE, FALSE, UNDEF)
  /\ caller = "direct"
  /\ dbPath = UNDEF
  /\ gate = "NONE"
  /\ answer = <<>>
  /\ rl = NoRl
  /\ db = NoDb
  /\ loc = NoLoc
  /\ ops = <<>>
  /\ stdout = <<>>
  /\ stderr = <<>>
  /\ error = NoError
  /\ exitCode = -1
  /\ rowAtStart = row
  /\ fileAtStart = file
  /\ calls = <<>>

NextFind == call_findCursorDatabase

SpecFind == InitFind /\ [][NextFind]_vars

\* validateCursorDatabase called on a path that exists or not, with a file of
\* any content of the model behind it
InitValidate ==
  /\ argv = <<>>
  /\ existing \in {{}, {CustomDbPath}}
  /\ dbFile \in ValidateDbFiles
  /\ row = NoRow
  /\ file = NoFile
  /\ pc = "validating"
  /\ args = NoArgs
  /\ caller = "direct"
  /\ dbPath = CustomDbPath
  /\ gate = "NONE"
  /\ answer = <<>>
  /\ rl = NoRl
  /\ db = NoDb
  /\ loc = NoLoc
  /\ ops = <<>>
  /\ stdout = <<>>
  /\ stderr = <<>>
  /\ error = NoError
  /\ exitCode = -1
  /\ rowAtStart = row
  /\ fileAtStart = file
  /\ calls = <<>>

NextValidate == call_validateCursorDatabase

SpecValidate == InitValidate /\ [][NextValidate]_vars

\* parseArgs on every argument list of at most MaxArgs words
ArgLists == UNION {[1..len -> ArgWords \cup {CustomDbPath}] : len \in 0..MaxArgs}

InitArgs ==
  /\ \E words \in ArgLists : argv = <<"node", "modeload">> \o words
  /\ existing \in {{}, {CustomDbPath}}
  /\ dbFile = [readable |-> TRUE, bytes |-> ValidDbBytes]
  /\ row = NoRow
  /\ file = NoFile
  /\ pc = "main"
  /\ Blank

NextArgs == main_parseArgs

SpecArgs == InitArgs /\ [][NextArgs]_vars

\* one run of the command for every argument list of at most MaxArgs words,
\* on a host with a valid store at a standard location and at the custom
\* path
InitAnyArgs ==
  /\ \E words \in ArgLists : argv = <<"node", "modeload">> \o words
  /\ existing = {possiblePaths[3], CustomDbPath}
  /\ dbFile = [readable |-> TRUE, bytes |-> ValidDbBytes]
  /\ row = Row(JSONstringify(SettingsWith(<<M1>>)))
  /\ file = File(ModesFileText(JArr(<<M2>>)))
  /\ pc = "main"
  /\ Blank

SpecAnyArgs == InitAnyArgs /\ [][Next]_vars

\* one load command on a host with a valid store, and any line answered at
\* the prompt
InitGate ==
  /\ argv \in {<<"node", "modeload", "load", "modes.json">>}
  /\ existing = {possiblePaths[3]}
  /\ dbFile = [readable |-> TRUE, bytes |-> ValidDbBytes]
  /\ row = Row(JSONstringify(SettingsWith(<<M1>>)))
  /\ file = File(ModesFileText(JArr(<<M2>>)))
  /\ pc = "main"
  /\ Blank

NextGate ==
  \/ main_parseArgs
  \/ main_findCursorDatabase
  \/ main_validateCursorDatabase
  \/ main_switch
  \/ handleLoadCommand
  \/ \E line \in Answers : rl_answer(line)
  \/ loadModesFromFile_read
  \/ loadModesFromFile_open
  \/ loadModesFromFile_fetch
  \/ loadModesFromFile_merge
  \/ loadModesFromFile_update
  \/ loadModesFromFile_finally
  \/ handleCommand_return
  \/ main_catch

SpecGate == InitGate /\ [][NextGate]_vars

\* handleLoadCommand(filename, dbPath, skipConfirmation) called with each
\* value of skipConfirmation, as main.test.ts does with parseArgs mocked, on
\* a store that was found and validated
InitWait ==
  /\ argv = <<>>
  /\ existing = {CustomDbPath}
  /\ dbFile = [readable |-> TRUE, bytes |-> ValidDbBytes]
  /\ row \in MainRows
  /\ file \in MainFiles
  /\ pc = "handleLoad"
  /\ caller = "main"
  /\ \E yes \in {UNDEF, "true", "false"} :
       args = RawArgs("load", "modes.json", UNDEF, FALSE, FALSE, yes)
  /\ dbPath = CustomDbPath
  /\ gate = "NONE"
  /\ answer = <<>>
  /\ rl = NoRl
  /\ db = NoDb
  /\ loc = NoLoc
  /\ ops = <<>>
  /\ stdout = <<>>
  /\ stderr = <<>>
  /\ error = NoError
  /\ exitCode = -1
  /\ rowAtStart = row
  /\ fileAtStart = file
  /\ calls = <<>>

\* the steps the process takes by itself: synchronous code and awaited
\* promises that settle without input
ProgramStep ==
  \/ handleLoadCommand
  \/ loadModesFromFile_read
  \/ loadModesFromFile_open
  \/ loadModesFromFile_fetch
  \/ loadModesFromFile_merge
  \/ loadModesFromFile_update
  \/ loadModesFromFile_finally
  \/ handleCommand_return
  \/ main_catch

NextWait ==
  \/ ProgramStep
  \/ \E line \in MainAnswers : rl_answer(line)

\* the process moves on from where it is: every step of ProgramStep moves pc,
\* and one is possible at every position but "prompt", where the process
\* waits for the line, and "exit"
Advance ==
  /\ pc \notin {"prompt", "exit"}
  /\ pc' \in {"prompt", "load_read", "load_open", "load_fetch", "load_merge", "load_update",
             "load_finally", "load_return", "catch", "exit"}

\* the process always takes its next step; a line on standard input is the
\* user's to give, and nothing obliges it to arrive.  The condition is
\* WF_vars(ProgramStep), stated on the position alone.
SpecWait == InitWait /\ [][NextWait]_vars /\ WF_pc(Advance)

\* the payload files that hold an array of modes
ArrayFiles == {File(ModesFileText(JArr(modes))) : modes \in ModeArrays}

\* between two imports the user puts another array in the payload file
payload_replaced ==
  /\ pc = "idle"
  /\ Len(calls) = 1
  /\ file' \in ArrayFiles \ {file}
  /\ UNCHANGED <<envVars, row, gateVars, histVars, outVars, caller, args, dbPath, db, loc,
                 ops, error, pc>>

\* the steps of loadModesFromFile
LoadSteps ==
  \/ loadModesFromFile_read
  \/ loadModesFromFile_open
  \/ loadModesFromFile_fetch
  \/ loadModesFromFile_merge
  \/ loadModesFromFile_update
  \/ loadModesFromFile_finally

\* loadModesFromFile called several times on one store, with the same
\* payload or with another
InitTwice ==
  /\ InitPipe
  /\ file \in ArrayFiles

NextTwice ==
  \/ call("load")
  \/ call_return
  \/ payload_replaced
  \/ LoadSteps

SpecTwice == InitTwice /\ [][NextTwice]_vars

\* what another process may leave in the place of the settings row: nothing,
\* a record with other sibling properties and other modes, or {}
ExternalRows ==
  { NoRow,
    Row(JSONstringify(
          JObj(<<"composerState", "extra">>,
               <<JObj(<<"modes4", "other">>, <<JArr(<<M2>>), JStr("changed")>>),
                 JStr("changed2")>>))),
    Row(<<LBrace, RBrace>>) }

\* another process (Cursor itself) changes or deletes the settings row after
\* the SELECT of loadModesFromFile and before its UPDATE; the statements run
\* outside any transaction.  calls records the external write.
external_writer ==
  /\ pc \in {"load_merge", "load_update"}
  /\ IF calls = <<>> THEN TRUE ELSE calls[Len(calls)].op \notin {"external change", "external delete"}
  /\ row' \in ExternalRows \ {row}
  /\ calls' = Append(calls, [op |-> IF row'.present THEN "external change"
                                    ELSE "external delete",
                             ok |-> TRUE, rowBefore |-> row, fileBefore |-> file])
  /\ UNCHANGED <<envVars, file, gateVars, rowAtStart, fileAtStart, outVars, caller, args,
                 dbPath, db, loc, ops, error, pc>>

\* loadModesFromFile on a store that another process writes to
InitRace ==
  /\ InitPipe
  /\ file \in ArrayFiles

NextRace ==
  \/ call("load")
  \/ call_return
  \/ external_writer
  \/ LoadSteps

SpecRace == InitRace /\ [][NextRace]_vars

\* ------------------------------------------------------------------------
\* Properties
\* ------------------------------------------------------------------------

\* the answers that read "y" or "yes" when letter case is ignored
AffirmativeAnswers ==
  {<<"y">>, <<"Y">>}
  \cup {<<c1, c2, c3>> : c1 \in {"y", "Y"}, c2 \in {"e", "E"}, c3 \in {"s", "S"}}

\* every named property of before other than skip, and every indexed
\* element, is in after with the same value
PropsKept(before, after, skip) ==
  /\ \A i \in 1..Len(before.k) :
       before.k[i] # skip =>
         /\ HasProp(after, before.k[i])
         /\ GetProp(after, before.k[i]) = GetProp(before, before.k[i])
  /\ Elements(after) = Elements(before)

\* the siblings of composerState.modes4 at the top level and in composerState
SiblingsUnchanged(before, after) ==
  /\ PropsKept(before, after, "composerState")
  /\ PropsKept(GetProp(before, "composerState"), GetProp(after, "composerState"), "modes4")

\* the command line asks for auto-confirm
YesOnCommandLine == Includes(argv, "-y") \/ Includes(argv, "--yes")

C2_CancelTouchesNothing ==
  (rl.closed > 0 /\ answer \notin AffirmativeAnswers) =>
    /\ gate = "CANCELLED"
    /\ pc = "exit"
    /\ db = NoDb
    /\ ops = <<"prompt">>
    /\ row = rowAtStart
    /\ file = fileAtStart

C2_Witness ==
  /\ gate = "CANCELLED"
  /\ answer = <<"n", "o">>
  /\ row.present
  /\ file.present
  /\ pc = "exit"

\* C3: after an import that succeeded, every top-level property other than
\* composerState and every property of composerState other than modes4 has in
\* the value persisted the value it had in the value fetched
C3_MergePreservesSiblings ==
  (pc = "load_return" /\ error = NoError) =>
    /\ row.present
    /\ JSONparse(row.value).ok
    /\ SiblingsUnchanged(JSONparse(loc.value).v, JSONparse(row.value).v)

C3_Witness ==
  /\ pc = "load_return"
  /\ error = NoError
  /\ loc.value = JSONstringify(SettingsWith(<<M1>>))
  /\ loc.modesData = JArr(<<M2, JNull>>)
  /\ row = Row(JSONstringify(SettingsWith(<<M2, JNull>>)))

\* C4: a handle that was opened is closed exactly once before
\* saveModesToFile or loadModesFromFile returns or rejects, on every path
C4_ClosedExactlyOnce ==
  /\ db.closes <= db.opens
  /\ db.opens <= 1
  /\ pc \in {"save_return", "load_return", "idle"} => db.closes = db.opens

C4_Witness ==
  /\ pc = "load_return"
  /\ error = <<"SqliteError: update failed">>
  /\ db.opens = 1
  /\ db.closes = 1

\* C5: without a custom path findCursorDatabase returns the existing
\* candidate that comes first in the declared order: macOS Library, Windows
\* AppData/Roaming, Linux .config, Linux .cursor, snap, .local/share
C5_FirstDeclaredWins ==
  LET order == << "/home/user/Library/Application Support/Cursor/User/globalStorage/state.vscdb",
                  "/home/user/AppData/Roaming/Cursor/User/globalStorage/state.vscdb",
                  "/home/user/.config/Cursor/User/globalStorage/state.vscdb",
                  "/home/user/.cursor/User/globalStorage/state.vscdb",
                  "/home/user/snap/cursor/current/.config/Cursor/User/globalStorage/state.vscdb",
                  "/home/user/.local/share/Cursor/User/globalStorage/state.vscdb" >>
      hits == {i \in 1..6 : order[i] \in existing}
  IN (pc = "found" /\ args.dbPath = UNDEF /\ hits # {}) =>
       /\ error = NoError
       /\ \E i \in hits : dbPath = order[i] /\ \A j \in hits : i <= j

C5_Witness ==
  /\ pc = "found"
  /\ args.dbPath = UNDEF
  /\ existing = {possiblePaths[2], possiblePaths[4], possiblePaths[6], CustomDbPath}
  /\ dbPath = possiblePaths[2]

\* C6, as claimed: whenever a custom path is given, findCursorDatabase
\* returns it if it exists and otherwise fails with an error naming it
C6_AnyCustomPath ==
  (pc = "found" /\ args.dbPath # UNDEF) =>
    IF args.dbPath \in existing
    THEN dbPath = args.dbPath /\ error = NoError
    ELSE dbPath = UNDEF /\ error = <<"Custom database path not found: ", args.dbPath>>

\* C6, amended: whenever a custom path other than the empty string is given,
\* findCursorDatabase returns it if it exists and otherwise fails with an
\* error naming it, whatever standard candidates exist
C6_NonEmptyCustomPath ==
  (pc = "found" /\ args.dbPath \notin {UNDEF, ""}) =>
    IF args.dbPath \in existing
    THEN dbPath = args.dbPath /\ error = NoError
    ELSE dbPath = UNDEF /\ error = <<"Custom database path not found: ", args.dbPath>>

C6_Witness ==
  /\ pc = "found"
  /\ args.dbPath = CustomDbPath
  /\ existing = {possiblePaths[1], possiblePaths[3]}
  /\ dbPath = UNDEF
  /\ error # NoError

\* C7, as claimed: the gate is CONFIRMED exactly when the answer, with
\* leading and trailing whitespace removed and letter case ignored, is "y"
\* or "yes"
C7_TrimmedAnswer ==
  LET inked == {i \in 1..Len(answer) : answer[i] # " "}
      first == CHOOSE i \in inked : \A j \in inked : i <= j
      last == CHOOSE i \in inked : \A j \in inked : j <= i
      trimmed == IF inked = {} THEN <<>> ELSE SubSeq(answer, first, last)
  IN gate \in {"CONFIRMED", "CANCELLED"} =>
       (gate = "CONFIRMED" <=> trimmed \in AffirmativeAnswers)

\* C7, amended: the gate is CONFIRMED exactly when the answer as typed, with
\* letter case ignored and no whitespace removed, is "y" or "yes"; every
\* other answer, the empty one included, cancels
C7_ExactAnswer ==
  gate \in {"CONFIRMED", "CANCELLED"} =>
    /\ rl.closed = 1
    /\ gate = "CONFIRMED" <=> answer \in AffirmativeAnswers

C7_Witness ==
  /\ gate = "CONFIRMED"
  /\ answer = <<"Y", "e", "S">>
  /\ pc = "load_read"

\* C8, as claimed: a load command with -y or --yes never creates the
\* readline interface and never waits at the gate
C8_YesSkipsPrompt ==
  YesOnCommandLine => (rl.created = 0 /\ gate = "NONE" /\ pc # "prompt")

\* C9, as claimed: the object parseArgs returns for a save or load command
\* has yes = true exactly when the arguments contain -y or --yes
C9_YesSurvivesValidation ==
  (pc = "args" /\ args.command \in {"save", "load"}) =>
    (args.yes = "true" <=> YesOnCommandLine)

\* C10: export then import of the exported file into the same store leaves
\* a modes4 equal to the array R that was stored, and every sibling as it was
\* before the import
C10_RoundTrip ==
  LET first == JSONparse(calls[1].rowBefore.value)
      R == GetProp(GetProp(first.v, "composerState"), "modes4")
      before == JSONparse(calls[2].rowBefore.value).v
      after == JSONparse(row.value)
  IN (/\ Len(calls) = 2
      /\ calls[1].op = "save" /\ calls[1].ok
      /\ calls[2].op = "load" /\ calls[2].ok
      /\ calls[1].rowBefore.present /\ first.ok
      /\ IsArray(R)) =>
       /\ row.present
       /\ after.ok
       /\ GetProp(GetProp(after.v, "composerState"), "modes4") = R
       /\ SiblingsUnchanged(before, after.v)

C10_Witness ==
  /\ Len(calls) = 2
  /\ calls[1] = [op |-> "save", ok |-> TRUE,
                 rowBefore |-> Row(JSONstringifyPretty(SettingsWith(<<M2, M1>>), 2)),
                 fileBefore |-> NoFile]
  /\ calls[2].op = "load"
  /\ calls[2].ok
  /\ row = Row(JSONstringify(SettingsWith(<<M2, M1>>)))
  /\ file = File(ModesFileText(JArr(<<M2, M1>>)))

\* the names of the named properties of a value
KeySet(v) == {v.k[i] : i \in 1..Len(v.k)}

\* C11: after an import that succeeded into a settings record (a JSON
\* object) that has no composerState key, the stored record has a
\* composerState that is an object holding modes4 only, modes4 is the array
\* imported, and every top-level key of before is there with its value and
\* no other key was added
C11_CreatesComposerState ==
  LET before == JSONparse(loc.value).v
      after == JSONparse(row.value).v
  IN (pc = "load_return" /\ error = NoError /\ before.t = "obj"
      /\ ~HasProp(before, "composerState")) =>
       /\ row.present
       /\ JSONparse(row.value).ok
       /\ GetProp(after, "composerState") = JObj(<<"modes4">>, <<JSONparse(file.text).v>>)
       /\ PropsKept(before, after, "composerState")
       /\ KeySet(after) = KeySet(before) \cup {"composerState"}

C11_Witness ==
  /\ pc = "load_return"
  /\ error = NoError
  /\ loc.value = JSONstringify(SettingsNoState)
  /\ file = File(ModesFileText(JArr(<<M1>>)))
  /\ row = Row(JSONstringify(JObj(<<"extra", "composerState">>,
                                  <<JStr("keep2"), JObj(<<"modes4">>, <<JArr(<<M1>>)>>)>>)))

BadFile(f) == ~f.present \/ ~JSONparse(f.text).ok \/ ~IsArray(JSONparse(f.text).v)

\* the statements of loadModesFromFile after the payload was read
AfterRead == {"load_open", "load_fetch", "load_merge", "load_update", "load_finally",
              "load_return"}

\* C13: an import into a store without the settings row fails with an error
\* that names the settings key, an import into a store whose value is not
\* JSON fails with a parse error; in both no UPDATE is issued and the row is
\* as it was (an absent row stays absent)
C13_RowRequired ==
  LET absent == ~rowAtStart.present
      invalid == rowAtStart.present /\ ~JSONparse(rowAtStart.value).ok
  IN (pc \in AfterRead \cup {"load_read"} /\ (absent \/ invalid)) =>
       /\ row = rowAtStart
       /\ \A i \in 1..Len(ops) : ops[i] # "update"
       /\ (pc = "load_return" /\ \E i \in 1..Len(ops) : ops[i] = "fetch") =>
            error = IF absent
                    THEN <<"Settings not found in database. Key: ",
                           "src.vs.platform.reactivestorage.browser.reactiveStorageServiceImpl.persistentStorage.applicationUser">>
                    ELSE <<"Failed to parse current settings: ", "SyntaxError">>

C13_Witness ==
  /\ pc = "load_return"
  /\ row = NoRow
  /\ rowAtStart = NoRow
  /\ ops = <<"read", "open readwrite", "fetch", "close">>
  /\ error[1] = "Settings not found in database. Key: "

\* C14: when the payload file cannot be read, is not JSON or is not an
\* array, loadModesFromFile rejects right after reading it: no handle was
\* opened, no fetch and no update was issued, the row is untouched
C14_FailFastOnFile ==
  (pc \in AfterRead /\ BadFile(file)) =>
    /\ pc = "load_return"
    /\ error # NoError
    /\ db = NoDb
    /\ ops = <<"read">>
    /\ row = rowAtStart

C14_Witness ==
  /\ pc = "load_return"
  /\ file = File(JSONstringify(SettingsNoState))
  /\ error = <<"JSON file must contain an array of modes">>
  /\ row.present
  /\ db = NoDb

\* C15 as stated: with a payload file that is refused the load command
\* never prompts
C15_NoPromptOnBadFile ==
  (args.command = "load" /\ BadFile(file)) => \A i \in 1..Len(ops) : ops[i] # "prompt"

\* C15: the gate comes first: the load command reads the payload file only
\* after the prompt was answered and the gate reached CONFIRMED (or with
\* skipConfirmation), so a payload file that is refused makes the import
\* fail after the user was prompted and confirmed
C15_PromptBeforeRead ==
  /\ \A i \in 1..Len(ops) :
       (ops[i] = "read" /\ args.command = "load") =>
         \/ skipConfirmation
         \/ (gate = "CONFIRMED" /\ \E j \in 1..(i - 1) : ops[j] = "prompt")
  /\ (args.command = "load" /\ BadFile(file) /\ pc = "load_return" /\ ~skipConfirmation) =>
       /\ ops = <<"prompt", "read">>
       /\ error # NoError

C15_Witness ==
  /\ args.command = "load"
  /\ file = NoFile
  /\ gate = "CONFIRMED"
  /\ ops = <<"prompt", "read">>
  /\ pc = "load_return"
  /\ error = <<"Failed to read/parse JSON file: ", "ENOENT">>

\* "SQLite format 3", the 15 characters, as character codes
Header15 == <<83, 81, 76, 105, 116, 101, 32, 102, 111, 114, 109, 97, 116, 32, 51>>

\* validateCursorDatabase has returned or thrown
Validated == pc \in {"valid", "invalid", "thrown"}

\* the file was there and readFileSync handed its bytes over
WasRead == ops = <<"existsSync", "readFileSync">>

\* C16 as stated: true exactly when the first 16 bytes are the 15 characters
\* and the NUL that ends the header of the format
C16_SixteenBytes ==
  Validated =>
    (pc = "valid" <=>
       /\ WasRead
       /\ Len(dbFile.bytes) >= 16
       /\ SubSeq(dbFile.bytes, 1, 16) = Header15 \o <<0>>)

\* C16: validateCursorDatabase returns true exactly when the file exists,
\* was read, and its first 15 bytes, each without its highest bit, are the
\* characters "SQLite format 3"; a missing file, a file of fewer than 15
\* bytes and a header in another letter case give false
C16_FifteenChars ==
  Validated =>
    (pc = "valid" <=>
       /\ WasRead
       /\ Len(dbFile.bytes) >= 15
       /\ \A i \in 1..15 : dbFile.bytes[i] % 128 = Header15[i])

C16_Witness ==
  /\ pc = "valid"
  /\ dbFile.bytes = Header15 \o <<65>>

\* C17: for a file that exists and is read, content that begins with the 15
\* characters "SQLite format 3" gives true, whatever follows and also when
\* nothing follows
C17_HeaderPrefixSuffices ==
  (Validated /\ WasRead /\ Len(dbFile.bytes) >= 15
   /\ SubSeq(dbFile.bytes, 1, 15) = Header15) => pc = "valid"

C17_Witness ==
  /\ pc = "valid"
  /\ dbFile.bytes = Header15

\* C18: validateCursorDatabase never throws: a missing path gives false, and
\* a readFileSync that fails (permission denied, file gone since the
\* existence check) gives false
C18_NeverThrows ==
  Validated =>
    /\ pc # "thrown"
    /\ error = NoError
    /\ (dbPath \notin existing => pc = "invalid")
    /\ (dbPath \in existing /\ ~WasRead) => pc = "invalid"

C18_Witness ==
  /\ pc = "invalid"
  /\ dbFile.bytes = Header15 \o <<0>>
  /\ ops = <<"existsSync", "readFileSync", "EACCES">>
  /\ error = NoError

\* C19: without a custom path and with no standard location on the host,
\* findCursorDatabase fails, and the message of its error lists the six
\* candidate paths in the declared order and names the --db-path flag
C19_NotFoundListsCandidates ==
  LET order == << "/home/user/Library/Application Support/Cursor/User/globalStorage/state.vscdb",
                  "/home/user/AppData/Roaming/Cursor/User/globalStorage/state.vscdb",
                  "/home/user/.config/Cursor/User/globalStorage/state.vscdb",
                  "/home/user/.cursor/User/globalStorage/state.vscdb",
                  "/home/user/snap/cursor/current/.config/Cursor/User/globalStorage/state.vscdb",
                  "/home/user/.local/share/Cursor/User/globalStorage/state.vscdb" >>
  IN (pc = "found" /\ args.dbPath = UNDEF
      /\ \A i \in 1..6 : order[i] \notin existing) =>
       /\ dbPath = UNDEF
       /\ error # NoError
       /\ \E at \in 0..(Len(error) - 6) : SubSeq(error, at + 1, at + 6) = order
       /\ \E i \in 1..Len(error) :
            error[i] = "Use --db-path to specify a custom database location"

C19_Witness ==
  /\ pc = "found"
  /\ args.dbPath = UNDEF
  /\ existing = {CustomDbPath}
  /\ error # NoError
  /\ ops = possiblePaths

\* the statements of saveModesToFile
InSave == pc \in {"save_open", "save_fetch", "save_extract", "save_write", "save_finally",
                  "save_return"}

\* the store operations among the operations issued
StoreOps ==
  SelectSeq(ops, LAMBDA o : o \in {"open readonly", "open readwrite", "fetch", "update", "close"})

\* C20: an export opens the store read-only and never writes to it: all
\* through the run the settings row is the row of before, and when the run
\* returns or rejects the store operations issued are one read-only open,
\* at most one fetch and one close (none at all when the store could not be
\* opened)
C20_ExportIsReadOnly ==
  InSave =>
    /\ row = rowAtStart
    /\ db.mode \in {"none", "readonly"}
    /\ \E len \in 0..3 : StoreOps = SubSeq(<<"open readonly", "fetch", "close">>, 1, len)
                         \/ StoreOps = <<"open readonly", "close">>
    /\ pc = "save_return" =>
         StoreOps \in {<<>>, <<"open readonly", "close">>, <<"open readonly", "fetch", "close">>}

C20_Witness ==
  /\ pc = "save_return"
  /\ error = NoError
  /\ ops = <<"open readonly", "fetch", "write", "close">>
  /\ row.present
  /\ row = rowAtStart
  /\ file # fileAtStart

\* the errors of the failures injected at the store and at the file system
IOFaults ==
  { <<"SqliteError: unable to open database file">>, <<"SqliteError: fetch failed">>,
    <<"SqliteError: update failed">>, <<"Failed to write file: ", "EACCES">> }

\* composerState.modes4 of the record that was stored when the call started
StoredModes == GetProp(GetProp(JSONparse(rowAtStart.value).v, "composerState"), "modes4")

\* the row of when the call started holds JSON
StoredIsJSON == rowAtStart.present /\ JSONparse(rowAtStart.value).ok

\* C21: an export of a record without the nested array (no composerState,
\* no modes4, or a modes4 that is not an array) resolves, unless the store
\* or the file system fails: the file holds [], the diagnostic was printed,
\* no error is raised
C21_ExportWithoutModes ==
  (pc = "save_return" /\ StoredIsJSON /\ ~IsArray(StoredModes) /\ error \notin IOFaults) =>
    /\ error = NoError
    /\ file = File(<<LBrack, RBrack>>)
    /\ stdout # <<>>
    /\ stdout[Len(stdout)] = "No custom modes found in database"

C21_Witness ==
  /\ pc = "save_return"
  /\ error = NoError
  /\ rowAtStart = Row(JSONstringify(SettingsState(JObj(<<"modes4", "other">>,
                                                      <<JStr("x"), JStr("keep")>>))))
  /\ fileAtStart = File(ModesFileText(JArr(<<M1>>)))
  /\ file = File(<<LBrack, RBrack>>)

\* C22: an export from a store without the settings row fails with an error
\* that names the settings key, an export of a stored value that is not JSON
\* fails with a parse error; in both the destination file is not written: it
\* is as it was, absent or with its content
C22_ExportNeedsRow ==
  (InSave /\ ~StoredIsJSON) =>
    /\ file = fileAtStart
    /\ \A i \in 1..Len(ops) : ops[i] # "write"
    /\ (pc = "save_return" /\ \E i \in 1..Len(ops) : ops[i] = "fetch") =>
         error = IF ~rowAtStart.present
                 THEN <<"Settings not found in database. Key: ",
                        "src.vs.platform.reactivestorage.browser.reactiveStorageServiceImpl.persistentStorage.applicationUser">>
                 ELSE <<"Failed to parse settings JSON: ", "SyntaxError">>

C22_Witness ==
  /\ pc = "save_return"
  /\ rowAtStart = Row(<<LBrace>>)
  /\ fileAtStart = File(ModesFileText(JArr(<<M1>>)))
  /\ file = fileAtStart
  /\ ops = <<"open readonly", "fetch", "close">>
  /\ error = <<"Failed to parse settings JSON: ", "SyntaxError">>

\* C23: when composerState.modes4 of the stored record is an array, an
\* export that succeeded left in the destination file that array, every
\* element in its place, whatever the file held before; the array handed to
\* writeModesToFile is the array stored
C23_ExportWritesStoredArray ==
  (pc = "save_return" /\ error = NoError /\ StoredIsJSON /\ IsArray(StoredModes)) =>
    /\ file.present
    /\ JSONparse(file.text).ok
    /\ JSONparse(file.text).v = StoredModes
    /\ loc.modesData = StoredModes

C23_Witness ==
  /\ pc = "save_return"
  /\ error = NoError
  /\ rowAtStart = Row(JSONstringifyPretty(SettingsWith(<<M2, M1>>), 2))
  /\ fileAtStart = File(ModesFileText(JArr(<<M2, JNull>>)))
  /\ JSONparse(file.text).v = JArr(<<M2, M1>>)

\* C24 as stated: for every JSON array in the payload file the manifest step
\* does not fail (the import goes on to open the store), and with a settings
\* record that is an object whose composerState is an object or missing, and
\* no failure of the store, the array is stored as composerState.modes4
C24_AnyArrayIsStored ==
  LET modesData == JSONparse(file.text).v
      before == JSONparse(rowAtStart.value).v
      state == GetProp(before, "composerState")
  IN (pc = "load_return" /\ file.present /\ JSONparse(file.text).ok /\ IsArray(modesData)) =>
       /\ ops = <<"read">> => error = <<"SqliteError: unable to open database file">>
       /\ (StoredIsJSON /\ before.t = "obj" /\ state.t \in {"obj", "undefined"}
           /\ error \notin IOFaults) =>
            /\ error = NoError
            /\ GetProp(GetProp(JSONparse(row.value).v, "composerState"), "modes4") = modesData

\* the file at the database path would pass validateCursorDatabase
StoreIsValid ==
  /\ dbPath \in existing
  /\ dbFile.readable
  /\ Len(dbFile.bytes) >= 15
  /\ SubSeq(dbFile.bytes, 1, 15) = Header15

\* nothing was asked, opened, read or written
NothingTouched ==
  /\ ops = <<>>
  /\ db = NoDb
  /\ rl = NoRl
  /\ gate = "NONE"
  /\ row = rowAtStart
  /\ file = fileAtStart

\* C25: the prompt, the store and the payload file come only after
\* findCursorDatabase returned a path and validateCursorDatabase returned
\* true for it; a run of a save or load command in which discovery or
\* validation failed ends with a message on the error stream and exit status
\* 1, with nothing asked, opened, read or written
C25_StoreAfterValidation ==
  /\ ~NothingTouched => StoreIsValid
  /\ (pc = "exit" /\ args.command \in {"save", "load"} /\ ~StoreIsValid) =>
       /\ exitCode = 1
       /\ Len(stderr) = 1
       /\ NothingTouched

C25_Witness ==
  /\ pc = "exit"
  /\ args.command = "load"
  /\ dbPath \in existing
  /\ dbFile.bytes = <<80, 75, 3, 4>>
  /\ exitCode = 1
  /\ stderr = << <<"Database validation failed - not a valid SQLite file">> >>
  /\ NothingTouched

\* C26: when main has ended, the exit status is 1 exactly when an error was
\* raised, in whatever phase, and then its message is on the error stream; a
\* run without an error ends with status 0 and nothing on the error stream.
\* A command line parseArgs refuses is one of the errors.
C26_ExitOneOnError ==
  /\ exitCode \in {-1, 0, 1}
  /\ pc = "exit" =>
       /\ exitCode \in {0, 1}
       /\ (exitCode = 1) <=> (error # NoError)
       /\ exitCode = 1 => stderr = <<error>>
       /\ exitCode = 0 => stderr = <<>>
       /\ ~parseArgs(argv, existing).ok => exitCode = 1
  /\ pc # "exit" => (exitCode = -1 /\ stderr = <<>>)

C26_Witness ==
  /\ pc = "exit"
  /\ exitCode = 1
  /\ gate = "CONFIRMED"
  /\ stderr = << <<"Load failed: ", "SqliteError: update failed">> >>

\* C27: a run cancelled at the prompt ends as a run that succeeded: no error
\* is raised, nothing is on the error stream, process.exit(1) is not called
C27_CancelIsNormalExit ==
  gate = "CANCELLED" =>
    /\ pc = "exit"
    /\ exitCode = 0
    /\ error = NoError
    /\ stderr = <<>>

C27_Witness ==
  /\ gate = "CANCELLED"
  /\ answer = <<"N">>
  /\ pc = "exit"
  /\ exitCode = 0
  /\ stdout = <<"Operation cancelled by user">>

\* the words of the command line after node and the script
Words == SubSeq(argv, 3, Len(argv))

\* the command line is empty or holds --help or -h
WantsHelp == Len(Words) = 0 \/ Includes(Words, "--help") \/ Includes(Words, "-h")

\* the command line holds --version or -v and does not ask for help
WantsVersion == ~WantsHelp /\ (Includes(Words, "--version") \/ Includes(Words, "-v"))

C29_PreviewModes ==
  /\ db.closes <= db.opens
  /\ db.opens <= 1
  /\ db.mode \in {"none", "readonly"}
  /\ row = rowAtStart
  /\ pc = "preview_return" =>
       /\ db.closes = db.opens
       /\ error = <<"SqliteError: fetch failed">> => db.closes = 1
       /\ StoreOps \in {<<>>, <<"open readonly", "close">>, <<"open readonly", "fetch", "close">>}
       /\ (error \notin IOFaults /\ (~rowAtStart.present \/ StoredIsJSON)) =>
            /\ error = NoError
            /\ loc.modesData = IF rowAtStart.present /\ IsArray(StoredModes)
                               THEN StoredModes ELSE JArr(<<>>)

C29_Witness ==
  /\ pc = "preview_return"
  /\ rowAtStart = NoRow
  /\ error = NoError
  /\ loc.modesData = JArr(<<>>)
  /\ ops = <<"open readonly", "fetch", "close">>

\* s is the first Len(s) operations of t
IsPrefix(s, t) == Len(s) <= Len(t) /\ s = SubSeq(t, 1, Len(s))

\* the operations of an export and of an import that meet no failure
ExportOrder == <<"open readonly", "fetch", "write", "close">>

ImportOrder == <<"read", "open readwrite", "fetch", "update", "close">>

\* C30: the operations of one call come in a fixed order: an export opens
\* read-only, fetches, writes the destination file, closes; an import reads
\* the source file, opens read-write, fetches, updates, closes.  A call
\* that fails stops the sequence where it failed and then closes, if it
\* holds a handle: close is the last operation, and nothing is fetched,
\* updated or written after it.
C30_FixedOrder ==
  LET upTo(order, len) == SubSeq(order, 1, len)
      closed(order, len) == Append(upTo(order, len), "close")
      running(order) == \E len \in 0..(Len(order) - 1) : ops = upTo(order, len)
      ended(order, first) == \/ ops = upTo(order, first - 1)
                             \/ \E len \in first..(Len(order) - 1) : ops = closed(order, len)
  IN /\ InSave => running(ExportOrder) \/ ended(ExportOrder, 1)
     /\ pc = "save_return" => ended(ExportOrder, 1)
     /\ pc \in AfterRead \cup {"load_read"} => running(ImportOrder) \/ ended(ImportOrder, 2)
     /\ pc = "load_return" => ended(ImportOrder, 2)
     /\ \A i \in 1..Len(ops) : ops[i] = "close" => i = Len(ops)
     /\ \A i \in 1..Len(ops) :
          ops[i] \in {"fetch", "update", "close"} =>
            \E j \in 1..(i - 1) : ops[j] \in {"open readonly", "open readwrite"}

C30_Witness ==
  /\ Len(calls) = 1
  /\ calls[1].op = "save"
  /\ calls[1].ok
  /\ pc = "load_return"
  /\ error = NoError
  /\ ops = ImportOrder

\* C37: a custom path that is the empty string is treated as no custom path:
\* the standard candidates are probed in order up to the first that exists,
\* which is returned, and the error when none exists is the one of the
\* standard search; for a non-empty custom path only that path is probed
C37_EmptyCustomPathIsNone ==
  /\ (pc = "found" /\ args.dbPath = "") =>
       /\ ops # <<>>
       /\ IsPrefix(ops, possiblePaths)
       /\ \A i \in 1..Len(ops) : (possiblePaths[i] \in existing) <=> (i = Len(ops) /\ dbPath # UNDEF)
       /\ IF ExistingIndexes(existing) # {}
          THEN dbPath = ops[Len(ops)] /\ error = NoError
          ELSE /\ dbPath = UNDEF
               /\ ops = possiblePaths
               /\ error[1] = "Cursor database not found in any of the standard locations:"
  /\ (pc = "found" /\ args.dbPath \notin {UNDEF, ""}) =>
       /\ ops = <<args.dbPath>>
       /\ \A i \in 1..Len(possiblePaths) : possiblePaths[i] # args.dbPath

C37_Witness ==
  /\ pc = "found"
  /\ args.dbPath = ""
  /\ existing = {possiblePaths[2], CustomDbPath}
  /\ dbPath = possiblePaths[2]
  /\ ops = SubSeq(possiblePaths, 1, 2)

\* the number of operations of the call in progress that are among kinds
OpCount(kinds) == Len(SelectSeq(ops, LAMBDA o : o \in kinds))

\* C31: nothing is retried.  In one call the store is opened at most once,
\* the settings key fetched at most once, at most one UPDATE issued and the
\* destination file written at most once; once an error is raised the only
\* operation that may follow is the close of the handle, the store and the
\* file stay as they are, and the error that leaves the call is that error
C31_NoRetry ==
  /\ [](/\ OpCount({"open readonly", "open readwrite"}) <= 1
        /\ db.opens <= 1
        /\ OpCount({"fetch"}) <= 1
        /\ OpCount({"update"}) <= 1
        /\ OpCount({"write"}) <= 1
        /\ OpCount({"close"}) <= 1)
  /\ [][(error # NoError /\ pc # "idle") =>
          /\ error' = error
          /\ row' = row
          /\ file' = file
          /\ ops' = ops \/ (ops' = Append(ops, "close") /\ db.opens = 1)]_vars

C31_Witness ==
  /\ pc = "save_return"
  /\ error = <<"Failed to write file: ", "EACCES">>
  /\ ops = <<"open readonly", "fetch", "close">>
  /\ file = fileAtStart
  /\ row = rowAtStart

\* the states of the gate in which the answer has been taken
GateDecided == {"CONFIRMED", "CANCELLED"}

\* C32: the gate is a one-shot state machine.  A load command without
\* auto-confirm presents the prompt once; the gate is PENDING exactly while
\* the prompt waits; the first line received closes the input interface and
\* moves the gate to CONFIRMED when the line is affirmative and to CANCELLED
\* for any other line; from then on the gate, the answer and the interface
\* never change again, so no answer is asked for a second time
C32_OneShotGate ==
  /\ [](/\ gate \in {"NONE", "PENDING"} \cup GateDecided
        /\ rl.created <= 1
        /\ OpCount({"prompt"}) = rl.created
        /\ (gate = "NONE") <=> (rl.created = 0)
        /\ (gate = "PENDING") <=> (rl.created = 1 /\ rl.closed = 0)
        /\ (gate = "PENDING") <=> (pc = "prompt")
        /\ (gate \in GateDecided) <=> (rl.created = 1 /\ rl.closed = 1)
        /\ (gate = "CONFIRMED") => promptConfirmation(answer)
        /\ (gate = "CANCELLED") => ~promptConfirmation(answer)
        /\ (pc \in {"load_read", "load_open", "load_fetch", "load_merge", "load_update",
                    "load_finally", "load_return"} /\ ~skipConfirmation) =>
             gate = "CONFIRMED")
  /\ [][/\ (gate = "PENDING" /\ gate' # "PENDING") =>
             /\ gate' \in GateDecided
             /\ rl' = [rl EXCEPT !.closed = @ + 1]
        /\ (gate \in GateDecided) => (gate' = gate /\ answer' = answer /\ rl' = rl)]_vars

C32_Witness ==
  /\ gate = "CANCELLED"
  /\ answer = <<"y", "e">>
  /\ rl = [created |-> 1, closed |-> 1]
  /\ ops = <<"prompt">>
  /\ pc = "exit"

\* the run has ended with the store handle closed, if one was opened
Terminated == pc = "exit" /\ exitCode \in {0, 1} /\ db.closes = db.opens

\* C33: the import is suspended at the gate until a line is received.  While
\* the prompt waits the store has not been opened and the run has not ended,
\* and the only step that leaves the prompt is the arrival of a line (there
\* is no timeout).  Once a line has been received, or when auto-confirm is
\* set, the run always ends, with the handle closed, in success (exit 0, the
\* UPDATE issued), cancellation (exit 0, nothing touched) or error (exit 1).
C33_SuspendedUntilAnswered ==
  /\ [](pc = "prompt" => (db = NoDb /\ exitCode = -1 /\ ops = <<"prompt">>))
  /\ [][pc = "prompt" => rl' = [rl EXCEPT !.closed = @ + 1]]_vars
  /\ (rl.closed = 1) ~> Terminated
  /\ (pc = "handleLoad" /\ skipConfirmation) ~> Terminated
  /\ [](Terminated =>
          \/ exitCode = 0 /\ error = NoError /\ gate # "CANCELLED"
               /\ OpCount({"update"}) = 1 /\ db.opens = 1
          \/ exitCode = 0 /\ error = NoError /\ gate = "CANCELLED"
               /\ db = NoDb /\ row = rowAtStart
          \/ exitCode = 1 /\ error # NoError /\ row = rowAtStart)

C33_Witness ==
  /\ rl.closed = 1
  /\ gate = "CONFIRMED"
  /\ Terminated
  /\ exitCode = 1
  /\ db.opens = 1
  /\ error = <<"Load failed: ", "SqliteError: update failed">>

\* the run that skips the prompt also ends
C33_WitnessAutoConfirm ==
  /\ skipConfirmation
  /\ gate = "NONE"
  /\ Terminated
  /\ exitCode = 0
  /\ OpCount({"update"}) = 1

\* every step moves pc to one of the positions Advance names, and the steps
\* that do not start at the prompt are the steps of the program
AdvanceIsProgramStep ==
  /\ [][pc' # pc]_vars
  /\ [][pc' \in {"prompt", "load_read", "load_open", "load_fetch", "load_merge",
                 "load_update", "load_finally", "load_return", "catch", "exit"}]_vars
  /\ [][(pc # "prompt") <=> ProgramStep]_vars

\* the value at composerState.modes4 of the row, when the row holds JSON in
\* which that path can be read
RowModes ==
  LET record == JSONparse(row.value).v
  IN IF ~CanRead(record) THEN JUndefined
     ELSE IF ~CanRead(GetProp(record, "composerState")) THEN JUndefined
     ELSE GetProp(GetProp(record, "composerState"), "modes4")

\* C34, as claimed: for every stored value that is JSON, an import either
\* fails without issuing an UPDATE or leaves a record whose
\* composerState.modes4 is the imported array; it never returns without
\* error while the record lacks the array
C34_SuccessMeansPersisted ==
  (pc = "load_return" /\ StoredIsJSON) =>
    IF error = NoError
    THEN /\ row.present
         /\ JSONparse(row.value).ok
         /\ RowModes = loc.modesData
    ELSE /\ OpCount({"update"}) = 0
         /\ row = rowAtStart

\* the stored record is a JSON array, or its composerState is one
ArrayInTheWay ==
  LET record == JSONparse(rowAtStart.value).v
  IN IsArray(record) \/ (CanRead(record) /\ IsArray(GetProp(record, "composerState")))

\* C34, for every stored value but those with an array in the way: there the
\* statement holds
C34_PersistedUnlessArray ==
  (pc = "load_return" /\ StoredIsJSON /\ ~ArrayInTheWay) =>
    IF error = NoError
    THEN /\ row.present
         /\ JSONparse(row.value).ok
         /\ RowModes = loc.modesData
    ELSE /\ OpCount({"update"}) = 0
         /\ row = rowAtStart

\* C34: with an array in the way the import that meets no failure returns
\* without error, the UPDATE issued, and the row it leaves lacks the array
C34_ArrayLosesModes ==
  (pc = "load_return" /\ StoredIsJSON /\ ArrayInTheWay /\ error = NoError) =>
    /\ OpCount({"update"}) = 1
    /\ row = rowAtStart
    /\ RowModes = JUndefined

C34_Witness ==
  /\ pc = "load_return"
  /\ error = NoError
  /\ rowAtStart = Row(JSONstringify(SettingsState(JArr(<<JNum("1")>>))))
  /\ loc.modesData = JArr(<<M1>>)
  /\ ops = <<"read", "open readwrite", "fetch", "update", "close">>
  /\ row = rowAtStart

\* C36: import is idempotent.  When an import that met no error follows at
\* once an import that met none, the record it leaves is the one an import of
\* its array alone leaves from the row the first import found; with the same
\* array in both, that is the record the first import left.
C36_ImportIsIdempotent ==
  (/\ pc = "load_return"
   /\ error = NoError
   /\ calls # <<>>
   /\ calls[Len(calls)].op = "load"
   /\ calls[Len(calls)].ok) =>
    LET first == calls[Len(calls)]
        alone == MergeModes(first.rowBefore.value, loc.modesData)
    IN /\ first.rowBefore.present
       /\ alone.ok
       /\ row = Row(alone.text)
       /\ (file = first.fileBefore) => (row = rowAtStart)

\* [M1] and then [M2] imported into a record that held [M2]
C36_Witness ==
  /\ pc = "load_return"
  /\ error = NoError
  /\ Len(calls) = 1
  /\ calls[1].ok
  /\ calls[1].rowBefore = Row(JSONstringify(SettingsWith(<<M2>>)))
  /\ calls[1].fileBefore = File(ModesFileText(JArr(<<M1>>)))
  /\ file = File(ModesFileText(JArr(<<M2>>)))
  /\ rowAtStart = Row(JSONstringify(SettingsWith(<<M1>>)))
  /\ row = Row(JSONstringify(SettingsWith(<<M2>>)))

\* [M1] imported twice
C36_WitnessSameArray ==
  /\ pc = "load_return"
  /\ error = NoError
  /\ Len(calls) = 1
  /\ calls[1].ok
  /\ calls[1].rowBefore = Row(JSONstringifyPretty(SettingsWith(<<M2, M1>>), 2))
  /\ calls[1].fileBefore = file
  /\ file = File(ModesFileText(JArr(<<M1>>)))
  /\ row = rowAtStart
  /\ row = Row(JSONstringify(SettingsWith(<<M1>>)))

\* another process wrote the row between the fetch and the UPDATE of the
\* import that is returning
ExternalWrite ==
  /\ pc \in {"load_finally", "load_return"}
  /\ calls # <<>>
  /\ calls[Len(calls)].op \in {"external change", "external delete"}

\* C35: import does not detect a concurrent writer.  When another process
\* changed or deleted the row between the fetch and the UPDATE, the import
\* raises no error but those it raises without the writer (a record it
\* cannot merge, a failing UPDATE); when it raises none it has issued its
\* UPDATE and printed its success message, and the row is absent if the
\* writer deleted it and otherwise the record that was fetched with modes4
\* replaced, whatever the writer had stored
C35_LostUpdate ==
  ExternalWrite =>
    LET fetched == calls[Len(calls)].rowBefore
        merged == MergeModes(fetched.value, loc.modesData)
    IN /\ fetched.present
       /\ loc.value = fetched.value
       /\ error \in {NoError, merged.error, <<"SqliteError: update failed">>}
       /\ (error = NoError /\ pc = "load_return") =>
            /\ merged.ok
            /\ ops = ImportOrder
            /\ stdout # <<>>
            /\ stdout[Len(stdout)] = "Successfully loaded modes"
            /\ row = IF calls[Len(calls)].op = "external delete" THEN NoRow
                     ELSE Row(merged.text)
            /\ row.present =>
                 SiblingsUnchanged(JSONparse(fetched.value).v, JSONparse(row.value).v)
       /\ (error # NoError) => OpCount({"update"}) = 0

\* the writer changed a sibling property: the change is lost
C35_Witness ==
  /\ ExternalWrite
  /\ pc = "load_return"
  /\ error = NoError
  /\ rowAtStart = Row(JSONstringify(SettingsWith(<<>>)))
  /\ calls[Len(calls)].rowBefore = rowAtStart
  /\ loc.modesData = JArr(<<M1>>)
  /\ row = Row(JSONstringify(SettingsWith(<<M1>>)))

\* the writer deleted the row: the import returns without error and nothing
\* is stored
C35_WitnessDeleted ==
  /\ ExternalWrite
  /\ pc = "load_return"
  /\ error = NoError
  /\ ops = ImportOrder
  /\ row = NoRow

====
